---- MODULE Spec2Model ----
(***************************************************************************)
(* A model of osmio's PBF reader (src/src/pbf/mod.rs): the frame reader,   *)
(* the payload extraction, the group dispatcher, the entity decoders and   *)
(* the buffered PBFReader iterator.                                        *)
(*                                                                         *)
(* Conventions.                                                            *)
(*  - A byte is a number in 0..255; the stream and every message body is a *)
(*    sequence of bytes.  pos is the number of bytes consumed so far.      *)
(*  - Option<T> is [some |-> FALSE] or [some |-> TRUE, val |-> v].         *)
(*  - A Rust panic (unwrap on None/Err, index out of bounds, assert!,      *)
(*    unreachable!, unimplemented!) is an outcome of kind "panic": the     *)
(*    call does not return and the reader is not used again.               *)
(*  - A u32 field is the pair <<high 16 bits, low 16 bits>>, so that a     *)
(*    wrapped negative number differs from every small number.             *)
(***************************************************************************)
EXTENDS Integers, Sequences, FiniteSets, TLC

VARIABLES
    stream,              \* the bytes of the file behind FileReader.reader
    pos,                 \* bytes of stream consumed so far
    _buffer,             \* PBFReader._buffer (reversed batch, popped from the end)
    _sorted_assumption,  \* PBFReader._sorted_assumption
    ret,                 \* outcome of the latest call
    out,                 \* history: the entities returned by next(), in order
    frames,              \* history: the frames the stream was written from
    nones,               \* history: how many calls have returned None
    arg,                 \* input of the function under check (function specs)
    res,                 \* its outcome
    events,              \* the XML events of the document behind a changeset reader
    reader,              \* events consumed so far by the quick_xml reader
    curr_id,             \* ChangesetTagReader.curr_id
    curr_tags,           \* ChangesetTagReader.tags
    pc,                  \* the loop a call stands in between two iterations ("idle": no call)
    overflow_checks      \* the build: TRUE panics on integer overflow (debug), FALSE wraps (release)

\* The build is a free choice in the specifications whose inputs hold columns
\* that leave the i32 range (SpecGroup, SpecEntity).  The inputs of the other
\* specifications never overflow: both builds treat them alike, and the one
\* with overflow checks is taken.

\* the state of the changeset readers
xml == <<events, reader, curr_id, curr_tags, pc>>

vars == <<overflow_checks, stream, pos, _buffer, _sorted_assumption, ret, out, frames, nones, arg, res, xml>>

----------------------------------------------------------------------------
(* Bounds of the model *)

\* frames per stream
MaxFrames == 2
\* calls of next() that return None before the model stops calling
MaxNone == 2
\* nodes in a dense group
MaxNodes == 2
\* bytes of payload data in the payload-extraction inputs
MaxData == 2

----------------------------------------------------------------------------
(* Generic helpers *)

None == [some |-> FALSE]
Some(v) == [some |-> TRUE, val |-> v]

Panic(why) == [kind |-> "panic", why |-> why]

\* no changeset reader has been constructed
NoXml == events = <<>> /\ reader = 0 /\ curr_id = None /\ curr_tags = <<>> /\ pc = "idle"

\* Op applied to the value of v, with v evaluated once
Let(v, Op(_)) == CHOOSE y \in { Op(x) : x \in { v } } : TRUE

\* all sequences over S of length 0..n
SeqsUpTo(S, n) == UNION { [1..k -> S] : k \in 0..n }

SeqsOfLen(S, n) == [1..n -> S]

RECURSIVE Concat(_)
\* the concatenation of a sequence of sequences
Concat(ss) == IF ss = <<>> THEN <<>> ELSE Head(ss) \o Concat(Tail(ss))

RECURSIVE Reverse(_)
\* Vec::reverse
Reverse(s) == IF s = <<>> THEN <<>> ELSE Append(Reverse(Tail(s)), Head(s))


RECURSIVE PrefixSum(_, _)
\* d[1] + ... + d[i]
PrefixSum(d, i) == IF i = 0 THEN 0 ELSE PrefixSum(d, i - 1) + d[i]

\* the sum of two u32 values, as <<high, low>> halves
U32Add(a, b) ==
    LET low == a[2] + b[2]
    IN  << (a[1] + b[1] + low \div 65536) % 65536, low % 65536 >>

\* Rust's integer division truncates toward zero
TruncDiv(a, b) ==
    IF (a >= 0) = (b > 0) THEN (IF a >= 0 THEN a ELSE -a) \div (IF b > 0 THEN b ELSE -b)
    ELSE -((IF a >= 0 THEN a ELSE -a) \div (IF b > 0 THEN b ELSE -b))

\* `x as u32` for an x of 32 or more bits: the low 32 bits, as <<high, low>> halves
AsU32(x) ==
    IF x >= 0 THEN << (x \div 65536) % 65536, x % 65536 >>
    ELSE LET y == (x + 1073741824) + 1073741824     \* x + 2^31, for x >= -2^31
         IN  << (y \div 65536) + 32768, y % 65536 >>

----------------------------------------------------------------------------
(* Wire format: big-endian length prefix, protobuf messages, zlib *)

\* the 4 bytes of a u32 length prefix
BE32(n) == << (n \div 16777216) % 256, (n \div 65536) % 256, (n \div 256) % 256, n % 256 >>

\* a size no stream of the model can hold: stands for every u32 of 2^31 and more
HugeSize == 2147483646 + 1

\* Read::read_exact: n bytes from offset p, or failure having consumed the rest
ReadExact(s, p, n) ==
    IF n <= Len(s) - p
    THEN [ok |-> TRUE, bytes |-> SubSeq(s, p + 1, p + n), pos |-> p + n]
    ELSE [ok |-> FALSE, bytes |-> <<>>, pos |-> Len(s)]

\* ReadBytesExt::read_u32::<BigEndian>
ReadU32(s, p) ==
    LET r == ReadExact(s, p, 4)
        b == r.bytes
    IN  IF ~r.ok THEN [ok |-> FALSE, val |-> 0, pos |-> r.pos]
        ELSE [ok |-> TRUE,
              val |-> IF b[1] >= 128 THEN HugeSize
                      ELSE b[1] * 16777216 + b[2] * 65536 + b[3] * 256 + b[4],
              pos |-> r.pos]

RECURSIVE VarintGroups(_, _)
\* the 7-bit groups of the varint at index i (least significant first), or <<>>
\* when the bytes end inside it
VarintGroups(bytes, i) ==
    IF i > Len(bytes) THEN <<>>
    ELSE IF bytes[i] < 128 THEN << bytes[i] >>
    ELSE Let(VarintGroups(bytes, i + 1),
             LAMBDA rest : IF rest = <<>> THEN <<>> ELSE << bytes[i] - 128 >> \o rest)

\* a varint read as int32: the low 32 bits, two's complement
Int32OfGroups(g) ==
    LET G(k) == IF k <= Len(g) THEN g[k] ELSE 0
        low31 == G(1) + G(2) * 128 + G(3) * 16384 + G(4) * 2097152
                 + (G(5) % 8) * 268435456
        neg == (G(5) \div 8) % 2 = 1
    IN  IF neg THEN (low31 - 1073741824) - 1073741824 ELSE low31

\* the single-byte and multi-byte encodings of an int32 the model writes
Varint32(n) ==
    IF n < 0 THEN LET m == (n + 1073741824) + 1073741824      \* low 31 bits
                  IN  << 128 + (m % 128), 128 + ((m \div 128) % 128),
                         128 + ((m \div 16384) % 128), 128 + ((m \div 2097152) % 128),
                         8 + ((m \div 268435456) % 8) >>
    ELSE IF n < 128 THEN << n >>
    ELSE << 128 + (n % 128), n \div 128 >>

\* the field number and the wire type of a tag read as a varint of groups g
\* (read_raw_varint32: the low 32 bits)
TagNumber(g) ==
    LET G(k) == IF k <= Len(g) THEN g[k] ELSE 0
    IN  (G(1) \div 8) + G(2) * 16 + G(3) * 2048 + G(4) * 262144 + (G(5) % 16) * 33554432
TagWireType(g) == g[1] % 8

\* a varint is at most ten bytes long
VarintOk(g) == g # <<>> /\ Len(g) <= 10

RECURSIVE SkipGroup(_, _)
RECURSIVE FieldAt(_, _, _, _)

\* the value of a field of number num and wire type wt from index at:
\* [ok, field |-> [num, wt, int, bytes], next].  Wire types 0 (varint),
\* 1 (fixed64), 2 (length-delimited), 3 (a group, skipped to its end) and
\* 5 (fixed32) are read; 4 (a group end outside a group) fails.
FieldAt(bytes, at, num, wt) ==
    LET Fail == [ok |-> FALSE]
        Field(int, content, next) ==
            [ok |-> TRUE, next |-> next,
             field |-> [num |-> num, wt |-> wt, int |-> int, bytes |-> content]]
    IN  IF wt = 0 THEN
            Let(VarintGroups(bytes, at), LAMBDA g :
                IF ~VarintOk(g) THEN Fail
                ELSE Field(Int32OfGroups(g), <<>>, at + Len(g)))
        ELSE IF wt = 2 THEN
            Let(VarintGroups(bytes, at), LAMBDA g :
                LET n == Int32OfGroups(g)
                    from == at + Len(g)
                IN  IF ~VarintOk(g) \/ n < 0 \/ n > Len(bytes) - from + 1 THEN Fail
                    ELSE Field(0, SubSeq(bytes, from, from + n - 1), from + n))
        ELSE IF wt = 1 \/ wt = 5 THEN
            LET n == IF wt = 1 THEN 8 ELSE 4
            IN  IF n > Len(bytes) - at + 1 THEN Fail
                ELSE Field(0, SubSeq(bytes, at, at + n - 1), at + n)
        ELSE IF wt = 3 THEN
            Let(SkipGroup(bytes, at), LAMBDA end :
                IF end = 0 THEN Fail ELSE Field(0, <<>>, end))
        ELSE Fail

\* skip_group from index i: fields are skipped up to an end-group tag or the end
\* of the bytes; the index after the group, or 0 on a failure
SkipGroup(bytes, i) ==
    IF i > Len(bytes) THEN i
    ELSE Let(VarintGroups(bytes, i), LAMBDA t :
         IF ~VarintOk(t) \/ TagWireType(t) > 5 \/ TagNumber(t) = 0 THEN 0
         ELSE IF TagWireType(t) = 4 THEN i + Len(t)
         ELSE Let(FieldAt(bytes, i + Len(t), TagNumber(t), TagWireType(t)),
                  LAMBDA f : IF ~f.ok THEN 0 ELSE SkipGroup(bytes, f.next)))

RECURSIVE ParseFields(_, _, _)
\* protobuf::parse_from_bytes, the generic part: the fields of a message as a
\* sequence of [num, wt, int, bytes], or a failure.  A tag is a varint of a
\* field number (not 0) and a wire type (0..5).
ParseFields(bytes, i, acc) ==
    IF i > Len(bytes) THEN [ok |-> TRUE, fields |-> acc]
    ELSE
    Let(VarintGroups(bytes, i), LAMBDA t :
    IF ~VarintOk(t) \/ TagWireType(t) > 5 \/ TagNumber(t) = 0
    THEN [ok |-> FALSE, fields |-> <<>>]
    ELSE Let(FieldAt(bytes, i + Len(t), TagNumber(t), TagWireType(t)), LAMBDA f :
             IF ~f.ok THEN [ok |-> FALSE, fields |-> <<>>]
             ELSE Let(Append(acc, f.field),
                      LAMBDA acc2 : ParseFields(bytes, f.next, acc2))))

\* the last field numbered num (protobuf keeps the last value of a singular field)
HasField(fields, num) == \E k \in 1..Len(fields) : fields[k].num = num
LastField(fields, num) ==
    fields[CHOOSE k \in 1..Len(fields) :
              fields[k].num = num /\ \A j \in (k + 1)..Len(fields) : fields[j].num # num]

\* a known field met with another wire type fails the parse
WireTypesOk(fields, types) ==
    \A k \in 1..Len(fields) :
        fields[k].num \in DOMAIN types => fields[k].wt = types[fields[k].num]

RECURSIVE Utf8Valid(_, _)
\* std::str::from_utf8(bytes).is_ok(), from index i
Utf8Valid(b, i) ==
    LET Cont(k) == k <= Len(b) /\ b[k] >= 128 /\ b[k] <= 191
        In(k, lo, hi) == k <= Len(b) /\ b[k] >= lo /\ b[k] <= hi
    IN  IF i > Len(b) THEN TRUE
        ELSE IF b[i] < 128 THEN Utf8Valid(b, i + 1)
        ELSE IF b[i] >= 194 /\ b[i] <= 223 THEN Cont(i + 1) /\ Utf8Valid(b, i + 2)
        ELSE IF b[i] = 224 THEN In(i + 1, 160, 191) /\ Cont(i + 2) /\ Utf8Valid(b, i + 3)
        ELSE IF b[i] = 237 THEN In(i + 1, 128, 159) /\ Cont(i + 2) /\ Utf8Valid(b, i + 3)
        ELSE IF b[i] >= 225 /\ b[i] <= 239
        THEN Cont(i + 1) /\ Cont(i + 2) /\ Utf8Valid(b, i + 3)
        ELSE IF b[i] = 240
        THEN In(i + 1, 144, 191) /\ Cont(i + 2) /\ Cont(i + 3) /\ Utf8Valid(b, i + 4)
        ELSE IF b[i] >= 241 /\ b[i] <= 243
        THEN Cont(i + 1) /\ Cont(i + 2) /\ Cont(i + 3) /\ Utf8Valid(b, i + 4)
        ELSE IF b[i] = 244
        THEN In(i + 1, 128, 143) /\ Cont(i + 2) /\ Cont(i + 3) /\ Utf8Valid(b, i + 4)
        ELSE FALSE

\* "OSMData" and "OSMHeader" in ASCII
OSMData == << 79, 83, 77, 68, 97, 116, 97 >>
OSMHeader == << 79, 83, 77, 72, 101, 97, 100, 101, 114 >>

\* fileformat::BlobHeader { required string type = 1; optional bytes indexdata = 2;
\*                          required int32 datasize = 3; }
\* (a string field that is not UTF-8 fails the parse)
ParseBlobHeader(bytes) ==
    Let(ParseFields(bytes, 1, <<>>), LAMBDA p :
    LET f == p.fields
    IN  IF ~p.ok \/ ~WireTypesOk(f, (1 :> 2) @@ (2 :> 2) @@ (3 :> 0))
           \/ (\E k \in 1..Len(f) : f[k].num = 1 /\ ~Utf8Valid(f[k].bytes, 1))
           \/ ~HasField(f, 1) \/ ~HasField(f, 3)
        THEN [ok |-> FALSE]
        ELSE [ok |-> TRUE, field_type |-> LastField(f, 1).bytes,
              datasize |-> LastField(f, 3).int])

EncodeBlobHeader(kind, datasize) ==
    << 10 >> \o Varint32(Len(kind)) \o kind \o << 24 >> \o Varint32(datasize)

\* fileformat::Blob { optional bytes raw = 1; optional int32 raw_size = 2;
\*                    optional bytes zlib_data = 3; }
ParseBlob(bytes) ==
    Let(ParseFields(bytes, 1, <<>>), LAMBDA p :
    LET f == p.fields
    IN  IF ~p.ok \/ ~WireTypesOk(f, (1 :> 2) @@ (2 :> 0) @@ (3 :> 2))
        THEN [ok |-> FALSE]
        ELSE [ok |-> TRUE,
              has_raw |-> HasField(f, 1),
              raw |-> IF HasField(f, 1) THEN LastField(f, 1).bytes ELSE <<>>,
              raw_size |-> IF HasField(f, 2) THEN LastField(f, 2).int ELSE 0,
              has_zlib_data |-> HasField(f, 3),
              zlib_data |-> IF HasField(f, 3) THEN LastField(f, 3).bytes ELSE <<>>])

\* the writer's side of a Blob; a field is written iff its Option is some
EncodeBlob(raw, raw_size, zlib_data) ==
    (IF raw.some THEN << 10 >> \o Varint32(Len(raw.val)) \o raw.val ELSE <<>>)
    \o (IF raw_size.some THEN << 16 >> \o Varint32(raw_size.val) ELSE <<>>)
    \o (IF zlib_data.some THEN << 26 >> \o Varint32(Len(zlib_data.val)) \o zlib_data.val
        ELSE <<>>)

RECURSIVE AdlerSums(_, _, _)
\* the two sums of Adler-32 over data[lo..hi], taken in halves: <<b, a>> with
\* a the sum of the bytes and b the sum of the running values of a, mod 65521
AdlerSums(data, lo, hi) ==
    IF lo > hi THEN << 0, 0 >>
    ELSE IF lo = hi THEN << data[lo] % 65521, data[lo] % 65521 >>
    ELSE LET mid == (lo + hi) \div 2
             l == AdlerSums(data, lo, mid)
             r == AdlerSums(data, mid + 1, hi)
         IN  << (l[1] + r[1] + ((hi - mid) % 65521) * l[2]) % 65521, (l[2] + r[2]) % 65521 >>

\* Adler-32 of data as <<b, a>> (the high and low 16 bits), from a = 1, b = 0
Adler(data, i, a, b) ==
    Let(AdlerSums(data, i, Len(data)), LAMBDA s :
        << (b + s[1] + ((Len(data) - i + 1) % 65521) * a) % 65521, (a + s[2]) % 65521 >>)

Adler32Bytes(data) ==
    Let(Adler(data, 1, 1, 0), LAMBDA ba :
        << ba[1] \div 256, ba[1] % 256, ba[2] \div 256, ba[2] % 256 >>)

\* a zlib stream holding data in one stored (uncompressed) deflate block
Deflate(data) ==
    LET n == Len(data)
    IN  << 120, 1, 1, n % 256, n \div 256, 255 - (n % 256), 255 - (n \div 256) >>
        \o data \o Adler32Bytes(data)

\* ZlibDecoder::read_to_end(&mut bytes): [ok |-> TRUE, bytes] with the bytes
\* inflated, or [ok |-> FALSE, bytes |-> <<>>] for a corrupt stream.  Input that
\* ends before the stream does is no error: the bytes inflated so far are
\* returned.  Bytes after the checksum are not read.

Pow2(n) == << 1, 2, 4, 8, 16, 32, 64, 128, 256, 512, 1024, 2048, 4096, 8192, 16384 >>[n + 1]

\* bit number p of z, the bits of a byte counted from its least significant
BitAt(z, p) == (z[(p \div 8) + 1] \div Pow2(p % 8)) % 2

\* n bits from bit p are there to be read
Avail(z, p, n) == p + n <= 8 * Len(z)

RECURSIVE BitsAt(_, _, _)
\* the number in the n bits from bit p, least significant bit first
BitsAt(z, p, n) == IF n = 0 THEN 0 ELSE BitAt(z, p) + 2 * BitsAt(z, p + 1, n - 1)

InflateFailed == [ok |-> FALSE, bytes |-> <<>>]

\* the canonical Huffman code of the code lengths lens: for each length the
\* symbols (numbered from 0) whose code has that length, in ascending order
Huffman(lens) ==
    [l \in 1..15 |-> SelectSeq([i \in 1..Len(lens) |-> i - 1], LAMBDA s : lens[s + 1] = l)]

RECURSIVE CodeSpace(_, _)
\* the part of the code space the lengths from l on take up, in units of 2^-15
CodeSpace(code, l) ==
    IF l > 15 THEN 0 ELSE Len(code[l]) * Pow2(15 - l) + CodeSpace(code, l + 1)

RECURSIVE UsedSymbols(_, _)
UsedSymbols(code, l) == IF l > 15 THEN 0 ELSE Len(code[l]) + UsedSymbols(code, l + 1)

\* a set of code lengths is taken when it fills the code space exactly or
\* uses at most one symbol
CodeOk(code) == CodeSpace(code, 1) = 32768 \/ UsedSymbols(code, 1) <= 1

RECURSIVE DecodeSymbol(_, _, _, _, _, _)
\* the symbol whose code starts at bit p, read bit by bit:
\* [kind |-> "ok", sym, p], "eof" when the input ends inside the code, "err"
\* when the bits read begin no code of the table
DecodeSymbol(z, p, code, l, acc, first) ==
    IF \A k \in l..15 : code[k] = <<>> THEN [kind |-> "err"]
    ELSE IF ~Avail(z, p, 1) THEN [kind |-> "eof"]
    ELSE Let(acc + BitAt(z, p), LAMBDA c :
             IF c - Len(code[l]) < first
             THEN [kind |-> "ok", sym |-> code[l][c - first + 1], p |-> p + 1]
             ELSE DecodeSymbol(z, p + 1, code, l + 1, 2 * c, 2 * (first + Len(code[l]))))

LengthBase ==
    << 3, 4, 5, 6, 7, 8, 9, 10, 11, 13, 15, 17, 19, 23, 27, 31, 35, 43, 51, 59,
       67, 83, 99, 115, 131, 163, 195, 227, 258 >>

LengthExtra ==
    << 0, 0, 0, 0, 0, 0, 0, 0, 1, 1, 1, 1, 2, 2, 2, 2, 3, 3, 3, 3,
       4, 4, 4, 4, 5, 5, 5, 5, 0 >>

DistBase ==
    << 1, 2, 3, 4, 5, 7, 9, 13, 17, 25, 33, 49, 65, 97, 129, 193, 257, 385, 513, 769,
       1025, 1537, 2049, 3073, 4097, 6145, 8193, 12289, 16385, 24577 >>

DistExtra ==
    << 0, 0, 0, 0, 1, 1, 2, 2, 3, 3, 4, 4, 5, 5, 6, 6, 7, 7, 8, 8,
       9, 9, 10, 10, 11, 11, 12, 12, 13, 13 >>

\* bytes with len more bytes, each the byte dist places before it
CopyMatch(bytes, dist, len) ==
    bytes \o [k \in 1..len |->
                 LET from == Len(bytes) - dist + 1 + ((k - 1) % dist)
                 IN  IF from < 1 THEN 0 ELSE bytes[from]]

\* one symbol of a compressed block from bit p: [kind |-> "more", p, bytes]
\* after a literal or a match, [kind |-> "end", p, bytes] at the end-of-block
\* symbol, [kind |-> "eof", bytes] when the input ends first, [kind |-> "err"]
\* for a bad symbol.  A match that starts before the output is no error: the
\* decoder copies from its window, which holds zeros where nothing was written
InflateSymbol(z, p, bytes, lit, dist) ==
    Let(DecodeSymbol(z, p, lit, 1, 0, 0), LAMBDA s :
    IF s.kind = "err" THEN s
    ELSE IF s.kind = "eof" THEN [kind |-> "eof", bytes |-> bytes]
    ELSE IF s.sym < 256 THEN [kind |-> "more", p |-> s.p, bytes |-> Append(bytes, s.sym)]
    ELSE IF s.sym = 256 THEN [kind |-> "end", p |-> s.p, bytes |-> bytes]
    ELSE IF s.sym >= 286 THEN [kind |-> "err"]
    ELSE IF ~Avail(z, s.p, LengthExtra[s.sym - 256]) THEN [kind |-> "eof", bytes |-> bytes]
    ELSE
    LET len == LengthBase[s.sym - 256] + BitsAt(z, s.p, LengthExtra[s.sym - 256])
    IN
    Let(DecodeSymbol(z, s.p + LengthExtra[s.sym - 256], dist, 1, 0, 0), LAMBDA d :
    IF d.kind = "err" THEN d
    ELSE IF d.kind = "eof" THEN [kind |-> "eof", bytes |-> bytes]
    ELSE IF d.sym >= 30 THEN [kind |-> "err"]
    ELSE IF ~Avail(z, d.p, DistExtra[d.sym + 1]) THEN [kind |-> "eof", bytes |-> bytes]
    ELSE
    LET back == DistBase[d.sym + 1] + BitsAt(z, d.p, DistExtra[d.sym + 1])
    IN  [kind |-> "more", p |-> d.p + DistExtra[d.sym + 1],
         bytes |-> CopyMatch(bytes, back, len)]))

RECURSIVE InflateSymbols(_, _, _, _, _)
\* up to n symbols of a compressed block after the outcome r of the symbols
\* before them, taken in halves
InflateSymbols(z, r, lit, dist, n) ==
    IF r.kind # "more" THEN r
    ELSE IF n = 1 THEN InflateSymbol(z, r.p, r.bytes, lit, dist)
    ELSE Let(InflateSymbols(z, r, lit, dist, n \div 2), LAMBDA half :
             InflateSymbols(z, half, lit, dist, n - n \div 2))

\* the symbols of a compressed block from bit p, up to the end of the block,
\* of the input, or an error (a symbol takes a bit at least)
InflateCodes(z, p, bytes, lit, dist) ==
    InflateSymbols(z, [kind |-> "more", p |-> p, bytes |-> bytes], lit, dist,
                   8 * Len(z) - p + 1)

\* the code lengths of a block compressed with the fixed codes
FixedLengths ==
    [s \in 1..288 |-> IF s <= 144 THEN 8 ELSE IF s <= 256 THEN 9 ELSE IF s <= 280 THEN 7 ELSE 8]

\* (the distance symbols 30 and 31 have a code and are errors)
FixedDistances == [s \in 1..32 |-> 5]

\* the order in which a dynamic block stores the lengths of its code length code
LengthOrder == << 16, 17, 18, 0, 8, 7, 9, 6, 10, 5, 11, 4, 12, 3, 13, 2, 14, 1, 15 >>

\* one entry of the run-length coded code lengths of a dynamic block, read from
\* bit p after the lengths lens: [kind |-> "ok", lens, p], "eof" or "err"
ReadLength(z, p, code, total, lens) ==
    Let(DecodeSymbol(z, p, code, 1, 0, 0), LAMBDA s :
    IF s.kind # "ok" THEN s
    ELSE IF s.sym < 16 THEN [kind |-> "ok", lens |-> Append(lens, s.sym), p |-> s.p]
    ELSE
    LET extra == CASE s.sym = 16 -> 2 [] s.sym = 17 -> 3 [] OTHER -> 7
        least == IF s.sym = 18 THEN 11 ELSE 3
    IN  IF s.sym = 16 /\ lens = <<>> THEN [kind |-> "err"]
        ELSE IF ~Avail(z, s.p, extra) THEN [kind |-> "eof"]
        ELSE LET times == least + BitsAt(z, s.p, extra)
                 what == IF s.sym = 16 THEN lens[Len(lens)] ELSE 0
             IN  IF Len(lens) + times > total THEN [kind |-> "err"]
                 ELSE [kind |-> "ok", lens |-> lens \o [k \in 1..times |-> what],
                       p |-> s.p + extra])

RECURSIVE ReadLengths(_, _, _, _, _)
\* the total code lengths of a dynamic block from bit p:
\* [kind |-> "ok", lens, p], "eof" or "err"
ReadLengths(z, p, code, total, lens) ==
    IF Len(lens) = total THEN [kind |-> "ok", lens |-> lens, p |-> p]
    ELSE Let(ReadLength(z, p, code, total, lens), LAMBDA r :
             IF r.kind = "ok" THEN ReadLengths(z, r.p, code, total, r.lens) ELSE r)

\* the header of a dynamic block from bit p: [kind |-> "ok", lit, dist, p],
\* "eof" or "err"
DynamicCodes(z, p) ==
    IF ~Avail(z, p, 14) THEN [kind |-> "eof"]
    ELSE
    LET nlen == BitsAt(z, p, 5) + 257
        ndist == BitsAt(z, p + 5, 5) + 1
        ncode == BitsAt(z, p + 10, 4) + 4
    IN  IF nlen > 286 \/ ndist > 30 THEN [kind |-> "err"]
        ELSE IF ~Avail(z, p + 14, 3 * ncode) THEN [kind |-> "eof"]
        ELSE
        LET given(sym) == { k \in 1..ncode : LengthOrder[k] = sym }
            lenlens == [s \in 1..19 |->
                           IF given(s - 1) = {} THEN 0
                           ELSE BitsAt(z, p + 14 + 3 * ((CHOOSE k \in given(s - 1) : TRUE) - 1), 3)]
        IN  Let(Huffman(lenlens), LAMBDA lencode :
            IF ~CodeOk(lencode) THEN [kind |-> "err"]
            ELSE Let(ReadLengths(z, p + 14 + 3 * ncode, lencode, nlen + ndist, <<>>), LAMBDA r :
                 IF r.kind # "ok" THEN r
                 ELSE Let(Huffman(SubSeq(r.lens, 1, nlen)), LAMBDA lit :
                      Let(Huffman(SubSeq(r.lens, nlen + 1, nlen + ndist)), LAMBDA dist :
                          IF ~CodeOk(lit) \/ ~CodeOk(dist) THEN [kind |-> "err"]
                          ELSE [kind |-> "ok", lit |-> lit, dist |-> dist, p |-> r.p]))))

\* the end of a zlib stream from bit p: the Adler-32 of the output, big-endian,
\* at the next byte
InflateTrailer(z, p, bytes) ==
    LET at == (p + 7) \div 8
    IN  IF Len(z) < at + 4 THEN [ok |-> TRUE, bytes |-> bytes]
        ELSE IF SubSeq(z, at + 1, at + 4) # Adler32Bytes(bytes) THEN InflateFailed
        ELSE [ok |-> TRUE, bytes |-> bytes]

RECURSIVE InflateBlocks(_, _, _)
\* the deflate blocks from bit p on, bytes the bytes inflated so far
InflateBlocks(z, p, bytes) ==
    IF ~Avail(z, p, 3) THEN [ok |-> TRUE, bytes |-> bytes]
    ELSE
    LET final == BitAt(z, p) = 1
        type == BitsAt(z, p + 1, 2)
        after(q, bytes2) == IF final THEN InflateTrailer(z, q, bytes2) ELSE InflateBlocks(z, q, bytes2)
        compressed(lit, dist, q) ==
            Let(InflateCodes(z, q, bytes, lit, dist), LAMBDA r :
                CASE r.kind = "err" -> InflateFailed
                  [] r.kind = "eof" -> [ok |-> TRUE, bytes |-> r.bytes]
                  [] OTHER -> after(r.p, r.bytes))
    IN  CASE type = 0 ->
                LET at == (p + 3 + 7) \div 8
                IN  IF Len(z) < at + 4 THEN [ok |-> TRUE, bytes |-> bytes]
                    ELSE LET len == z[at + 1] + 256 * z[at + 2]
                             have == IF Len(z) - (at + 4) < len THEN Len(z) - (at + 4) ELSE len
                         IN  IF z[at + 3] # 255 - z[at + 1] \/ z[at + 4] # 255 - z[at + 2]
                             THEN InflateFailed
                             ELSE Let(bytes \o SubSeq(z, at + 5, at + 4 + have), LAMBDA bytes2 :
                                      IF have < len THEN [ok |-> TRUE, bytes |-> bytes2]
                                      ELSE after(8 * (at + 4 + len), bytes2))
          [] type = 1 -> compressed(Huffman(FixedLengths), Huffman(FixedDistances), p + 3)
          [] type = 2 ->
                Let(DynamicCodes(z, p + 3), LAMBDA h :
                    CASE h.kind = "err" -> InflateFailed
                      [] h.kind = "eof" -> [ok |-> TRUE, bytes |-> bytes]
                      [] OTHER -> compressed(h.lit, h.dist, h.p))
          [] OTHER -> InflateFailed

\* the zlib header: compression method 8, a window of at most 32K, a check
\* value that makes the two bytes a multiple of 31, no preset dictionary
Inflate(z) ==
    IF Len(z) < 2 THEN [ok |-> TRUE, bytes |-> <<>>]
    ELSE IF z[1] % 16 # 8 \/ z[1] \div 16 > 7 \/ (z[1] * 256 + z[2]) % 31 # 0
            \/ (z[2] \div 32) % 2 = 1
    THEN InflateFailed
    ELSE InflateBlocks(z, 16, <<>>)

----------------------------------------------------------------------------
(* Payload extraction and the frame reader *)

\* Vec::with_capacity(n as usize) for an i32 n: a negative n becomes a capacity
\* above isize::MAX, and with_capacity panics with "capacity overflow"
WithCapacityOk(n) == n >= 0

\* which representation blob_raw_data uses: raw first, then zlib_data
BlobSource(blob) ==
    IF blob.has_raw THEN "raw" ELSE IF blob.has_zlib_data THEN "zlib_data" ELSE "none"

\* blob_raw_data: [kind |-> "ok", val |-> Option<bytes>] or a panic
blob_raw_data(blob) ==
    CASE BlobSource(blob) = "raw" -> [kind |-> "ok", val |-> Some(blob.raw)]
      [] BlobSource(blob) = "zlib_data" ->
            IF ~WithCapacityOk(blob.raw_size)
            THEN Panic("Vec::with_capacity(raw_size): capacity overflow")
            ELSE Let(Inflate(blob.zlib_data), LAMBDA r :
                     [kind |-> "ok", val |-> IF r.ok THEN Some(r.bytes) ELSE None])
      [] OTHER -> [kind |-> "ok", val |-> None]

\* where a failed read leaves the reader: at the end of the stream
AfterFailedRead_Rewind(r) == 0

AfterFailedRead(r) == r.pos

\* blob_header.get_field_type() == "OSMData"
IsEntityData_Any(field_type) == TRUE

IsEntityData(field_type) == field_type = OSMData

RECURSIVE get_next_osmdata_blob(_, _)
\* FileReader::get_next_osmdata_blob from offset p:
\*   [kind |-> "None", pos], [kind |-> "Some", blob, pos] or a panic (with pos)
get_next_osmdata_blob(s, p) ==
    Let(ReadU32(s, p), LAMBDA size :
    IF ~size.ok THEN [kind |-> "None", pos |-> AfterFailedRead(size)]
    ELSE
    Let(ReadExact(s, size.pos, size.val), LAMBDA header_bytes :
    IF ~header_bytes.ok
    THEN Panic("read_exact(header): unwrap on Err") @@ [pos |-> header_bytes.pos]
    ELSE
    Let(ParseBlobHeader(header_bytes.bytes), LAMBDA blob_header :
    IF ~blob_header.ok
    THEN Panic("parse BlobHeader: unwrap on Err") @@ [pos |-> header_bytes.pos]
    ELSE IF ~WithCapacityOk(blob_header.datasize)
    THEN Panic("vec![0; datasize]: capacity overflow") @@ [pos |-> header_bytes.pos]
    ELSE
    Let(ReadExact(s, header_bytes.pos, blob_header.datasize), LAMBDA blob_bytes :
    IF ~blob_bytes.ok
    THEN Panic("read_exact(blob): unwrap on Err") @@ [pos |-> blob_bytes.pos]
    ELSE IF ~IsEntityData(blob_header.field_type)
    THEN get_next_osmdata_blob(s, blob_bytes.pos)
    ELSE
    Let(ParseBlob(blob_bytes.bytes), LAMBDA blob :
    IF ~blob.ok
    THEN Panic("parse Blob: unwrap on Err") @@ [pos |-> blob_bytes.pos]
    ELSE [kind |-> "Some", blob |-> blob, pos |-> blob_bytes.pos])))))

----------------------------------------------------------------------------
(* The frames a stream is written from *)

\* a frame as written: its kind, the three optional fields of its Blob, the
\* payload its writer put in (None when the Blob carries no readable payload)
\* and the bytes of the fields a later writer adds to the header
Frame(kind, raw, raw_size, zlib_data, payload) ==
    [kind |-> kind, raw |-> raw, raw_size |-> raw_size, zlib_data |-> zlib_data,
     payload |-> payload, extra |-> <<>>]

\* frame f with more fields in its header
WithHeaderFields(f, bytes) == [f EXCEPT !.extra = bytes]

FrameBody(f) == EncodeBlob(f.raw, f.raw_size, f.zlib_data)

EncodeFrame(f) ==
    LET body == FrameBody(f)
        header == EncodeBlobHeader(f.kind, Len(body)) \o f.extra
    IN  BE32(Len(header)) \o header \o body

\* the Blob a reader should get from frame f
BlobOf(f) ==
    [ok |-> TRUE,
     has_raw |-> f.raw.some,
     raw |-> IF f.raw.some THEN f.raw.val ELSE <<>>,
     raw_size |-> IF f.raw_size.some THEN f.raw_size.val ELSE 0,
     has_zlib_data |-> f.zlib_data.some,
     zlib_data |-> IF f.zlib_data.some THEN f.zlib_data.val ELSE <<>>]

RECURSIVE FrameEnd(_, _)
\* the offset just after the first k frames of fs
FrameEnd(fs, k) == IF k = 0 THEN 0 ELSE FrameEnd(fs, k - 1) + Len(EncodeFrame(fs[k]))

\* the stream written from frames fs, with its last cut bytes missing
StreamOf(fs, cut) ==
    LET all == Concat([k \in 1..Len(fs) |-> EncodeFrame(fs[k])])
    IN  SubSeq(all, 1, Len(all) - cut)

----------------------------------------------------------------------------
(* Entity decoders *)

\* v[i] for a Rust slice v and a zero-based index i: in bounds iff 0 <= i < len
\* (a negative index `as usize` is far beyond any length)
InBounds(v, i) == 0 <= i /\ i < Len(v)
At(v, i) == v[i + 1]


(* f32 values are written [neg, mant, exp] for (-1)^neg * mant * 2^exp, with  *)
(* 2^23 <= mant < 2^24, and zero as mant = 0, exp = 0.                       *)

RECURSIVE F32Unit(_, _)
\* the spacing of f32 values around a magnitude m >= 2^24 (u starts at 2)
F32Unit(m, u) == IF m \div u < 16777216 THEN u ELSE F32Unit(m, 2 * u)

RECURSIVE Log2(_)
\* the exponent of a power of two
Log2(u) == IF u = 1 THEN 0 ELSE 1 + Log2(u \div 2)

RECURSIVE F32Normal(_, _, _)
\* the f32 of magnitude m * 2^e for 0 < m < 2^24, which is exact
F32Normal(neg, m, e) ==
    IF m >= 8388608 THEN [neg |-> neg, mant |-> m, exp |-> e]
    ELSE F32Normal(neg, 2 * m, e - 1)

\* `x as f32` for an integer x: exact below 2^24, else rounded to the nearest
\* multiple of the spacing, ties to even
AsF32(x) ==
    LET m == IF x >= 0 THEN x ELSE -x
    IN  IF m = 0 THEN [neg |-> FALSE, mant |-> 0, exp |-> 0]
        ELSE IF m < 16777216 THEN F32Normal(x < 0, m, 0)
        ELSE Let(F32Unit(m, 2), LAMBDA u :
             LET q == m \div u
                 r == m % u
                 up == (r > u \div 2) \/ (r = u \div 2 /\ q % 2 = 1)
             IN  IF up /\ q + 1 = 16777216
                 THEN [neg |-> x < 0, mant |-> 8388608, exp |-> Log2(u) + 1]
                 ELSE [neg |-> x < 0, mant |-> IF up THEN q + 1 ELSE q, exp |-> Log2(u)])

\* the f32 product of two f32 values, rounded to nearest, ties to even (the
\* 48-bit product of the mantissas is computed in parts of 12 bits)
F32Mul(a, b) ==
    IF a.mant = 0 \/ b.mant = 0 THEN [neg |-> a.neg # b.neg, mant |-> 0, exp |-> 0]
    ELSE
    LET a1 == a.mant \div 4096
        a0 == a.mant % 4096
        b1 == b.mant \div 4096
        b0 == b.mant % 4096
    IN
    Let(a1 * b0 + a0 * b1, LAMBDA mid :
    Let(a0 * b0 + (mid % 4096) * 4096, LAMBDA low :
    Let(a1 * b1 + mid \div 4096 + low \div 16777216, LAMBDA hi :
    LET lo == low % 16777216
        big == hi >= 8388608
        rest == IF big THEN lo ELSE lo % 8388608
        half == IF big THEN 8388608 ELSE 4194304
        e == a.exp + b.exp + (IF big THEN 24 ELSE 23)
    IN
    Let(IF big THEN hi ELSE 2 * hi + lo \div 8388608, LAMBDA m :
    LET up == rest > half \/ (rest = half /\ m % 2 = 1)
    IN  IF up /\ m + 1 = 16777216 THEN [neg |-> a.neg # b.neg, mant |-> 8388608, exp |-> e + 1]
        ELSE [neg |-> a.neg # b.neg, mant |-> IF up THEN m + 1 ELSE m, exp |-> e]))))

\* the literal 0.000000001 as f32: 9007199 * 2^-53
Nano == [neg |-> FALSE, mant |-> 9007199, exp |-> -53]

\* 0.000000001 * (x as f32)
Degrees(x) == Let(AsF32(x), LAMBDA f : F32Mul(Nano, f))

(* i32 arithmetic.  A build with overflow checks (debug) panics on overflow, *)
(* a build without (release) keeps the low 32 bits.                          *)

I32Min == -2147483647 - 1

\* a + b in i32: [overflow, val], val the wrapped sum
I32Add(a, b) ==
    IF b > 0 /\ a > 2147483647 - b
    THEN [overflow |-> TRUE, val |-> ((a - 1073741824) - 1073741824) + ((b - 1073741824) - 1073741824)]
    ELSE IF b < 0 /\ a < I32Min - b
    THEN [overflow |-> TRUE, val |-> ((a + 1073741824) + 1073741824) + ((b + 1073741824) + 1073741824)]
    ELSE [overflow |-> FALSE, val |-> a + b]

\* the four bytes of an i32 in two's complement, least significant first
I32Bytes(x) ==
    LET Byte(m, k) == CASE k = 1 -> m % 256 [] k = 2 -> (m \div 256) % 256
                        [] k = 3 -> (m \div 65536) % 256 [] OTHER -> m \div 16777216
    IN  IF x >= 0 THEN [k \in 1..4 |-> Byte(x, k)]
        ELSE [k \in 1..4 |-> 255 - Byte(-(x + 1), k)]

\* a * b in i32: [overflow, val], val the low 32 bits of the product
I32Mul(a, b) ==
    Let(I32Bytes(a), LAMBDA x :
    Let(I32Bytes(b), LAMBDA y :
    Let(x[1] * y[1], LAMBDA c1 :
    Let(x[1] * y[2] + x[2] * y[1] + c1 \div 256, LAMBDA c2 :
    Let(x[1] * y[3] + x[2] * y[2] + x[3] * y[1] + c2 \div 256, LAMBDA c3 :
    Let(x[1] * y[4] + x[2] * y[3] + x[3] * y[2] + x[4] * y[1] + c3 \div 256, LAMBDA c4 :
    Let(LET top == c4 % 256
            low24 == (c1 % 256) + (c2 % 256) * 256 + (c3 % 256) * 65536
        IN  IF top >= 128 THEN ((top - 256) * 16777216) + low24 ELSE top * 16777216 + low24,
        LAMBDA val :
    LET abs(v) == IF v < 0 THEN -v ELSE v
        negative == (a < 0) # (b < 0)
        fits == \/ a = 0 \/ b = 0
                \/ a = I32Min /\ b = 1
                \/ b = I32Min /\ a = 1
                \/ /\ a # I32Min /\ b # I32Min /\ val # 0 /\ (val < 0) = negative
                   /\ IF val = I32Min
                      THEN I32Min % abs(b) = 0 /\ I32Min \div abs(b) = -abs(a)
                      ELSE abs(val) % abs(b) = 0 /\ abs(val) \div abs(b) = abs(a)
    IN  [overflow |-> ~fits, val |-> val])))))))

\* the outcome of an i32 operation in the build at hand
Checked(r, why) ==
    IF r.overflow /\ overflow_checks THEN Panic(why) ELSE [kind |-> "ok", val |-> r.val]

\* one step of a delta column: the value is the delta plus the previous value
Accumulate_NoCarry(delta, last) == delta

Accumulate(delta, last) == delta + last

\* what the dense decoder keeps as last_timestamp after a node: the value it
\* has just scaled by date_granularity
KeptTimestamp(sum, scaled) == scaled

\* a tag loop that stops after a node's first pair, leaving its terminator unread
ReadDenseTags_OnePair(keys_vals, kvi, tags) ==
    IF ~InBounds(keys_vals, kvi) THEN Panic("keys_vals[keys_vals_index]: index out of bounds")
    ELSE IF At(keys_vals, kvi) = 0
    THEN [kind |-> "ok", tags |-> tags, kvi |-> kvi + 1]
    ELSE IF ~InBounds(keys_vals, kvi + 1)
    THEN Panic("keys_vals[keys_vals_index]: index out of bounds")
    ELSE [kind |-> "ok", tags |-> << << At(keys_vals, kvi), At(keys_vals, kvi + 1) >> >>,
          kvi |-> kvi + 2]

RECURSIVE ReadDenseTags(_, _, _)
\* the tag loop of decode_dense_nodes from keys_vals_index kvi: the pairs of the
\* node and the index after its terminator, or a panic
ReadDenseTags(keys_vals, kvi, tags) ==
    IF ~InBounds(keys_vals, kvi) THEN Panic("keys_vals[keys_vals_index]: index out of bounds")
    ELSE IF At(keys_vals, kvi) = 0
    THEN [kind |-> "ok", tags |-> tags, kvi |-> kvi + 1]
    ELSE IF ~InBounds(keys_vals, kvi + 1)
    THEN Panic("keys_vals[keys_vals_index]: index out of bounds")
    ELSE Let(Append(tags, << At(keys_vals, kvi), At(keys_vals, kvi + 1) >>),
             LAMBDA tags2 : ReadDenseTags(keys_vals, kvi + 2, tags2))

\* a tag resolution that keeps every zipped pair, an absent side as the empty string
ResolveTags_KeepAbsent(keys, vals, stringtable, k, acc) ==
    LET text(idx) == IF InBounds(stringtable, idx) /\ At(stringtable, idx).some
                     THEN At(stringtable, idx).val ELSE <<>>
        m == IF Len(keys) <= Len(vals) THEN Len(keys) ELSE Len(vals)
    IN  [kind |-> "ok", tags |-> [j \in 1..m |-> << text(keys[j]), text(vals[j]) >>]]

RECURSIVE ResolveTags(_, _, _, _, _)
\* keys.zip(vals) through the string table, keeping the pairs with both sides
\* present; the zip ends with the shorter column, an index beyond it is not
\* looked up
ResolveTags(keys, vals, stringtable, k, acc) ==
    IF k > Len(keys) \/ k > Len(vals) THEN [kind |-> "ok", tags |-> acc]
    ELSE IF ~InBounds(stringtable, keys[k])
    THEN Panic("stringtable[idx]: index out of bounds")
    ELSE IF ~InBounds(stringtable, vals[k])
    THEN Panic("stringtable[idx]: index out of bounds")
    ELSE LET key == At(stringtable, keys[k])
             val == At(stringtable, vals[k])
         IN  Let(IF key.some /\ val.some THEN Append(acc, << key.val, val.val >>) ELSE acc,
                 LAMBDA acc2 : ResolveTags(keys, vals, stringtable, k + 1, acc2))

\* a node without a visibility entry counted as deleted
Deleted_MissingAsDeleted(visible, index) ==
    IF InBounds(visible, index) THEN ~At(visible, index) ELSE TRUE

\* !denseinfo.get_visible().get(index).unwrap_or(&true)
Deleted(visible, index) ==
    IF InBounds(visible, index) THEN ~At(visible, index) ELSE FALSE

\* the accumulators of decode_dense_nodes, all zero before the first node
DenseStart ==
    [keys_vals_index |-> 0, last_id |-> 0, last_lat |-> 0, last_lon |-> 0,
     last_timestamp |-> 0, last_changset |-> 0, last_uid |-> 0, last_user_sid |-> 0]

I32Max == 2147483646 + 1

\* the body of the loop of decode_dense_nodes for one index:
\* [kind |-> "ok", node, st] or a panic.  ids, lats, lons and changesets are
\* i64 columns; uids and user_sids are i32 columns and the timestamp is
\* computed in i32 (timestamps[index] as i32 keeps every value of the model)
DenseNode(dense, index, st, granularity, lat_offset, lon_offset, date_granularity, stringtable) ==
    LET denseinfo == dense.denseinfo
        has_tags == dense.keys_vals # <<>>
    IN
    IF ~InBounds(dense.id, index) \/ ~InBounds(dense.lat, index)
       \/ ~InBounds(dense.lon, index)
    THEN Panic("ids/lats/lons[index]: index out of bounds")
    ELSE
    LET id == Accumulate(At(dense.id, index), st.last_id)
        lat == Accumulate(At(dense.lat, index), st.last_lat)
        lon == Accumulate(At(dense.lon, index), st.last_lon)
    IN
    Let(IF has_tags THEN ReadDenseTags(dense.keys_vals, st.keys_vals_index, <<>>)
        ELSE [kind |-> "ok", tags |-> <<>>, kvi |-> st.keys_vals_index], LAMBDA read :
    IF read.kind = "panic" THEN read
    ELSE
    Let(ResolveTags([k \in 1..Len(read.tags) |-> read.tags[k][1]],
                    [k \in 1..Len(read.tags) |-> read.tags[k][2]],
                    stringtable, 1, <<>>), LAMBDA resolved :
    IF resolved.kind = "panic" THEN resolved
    ELSE IF ~InBounds(denseinfo.changeset, index)
    THEN Panic("changesets[index]: index out of bounds")
    ELSE IF ~InBounds(denseinfo.uid, index)
    THEN Panic("uids[index]: index out of bounds")
    ELSE
    Let(Checked(I32Add(At(denseinfo.uid, index), st.last_uid),
                "attempt to add with overflow"), LAMBDA uid_id :
    IF uid_id.kind = "panic" THEN uid_id
    ELSE IF ~InBounds(denseinfo.user_sid, index)
    THEN Panic("user_sids[index]: index out of bounds")
    ELSE
    Let(Checked(I32Add(At(denseinfo.user_sid, index), st.last_user_sid),
                "attempt to add with overflow"), LAMBDA user_sid :
    IF user_sid.kind = "panic" THEN user_sid
    ELSE IF ~InBounds(denseinfo.timestamp, index)
    THEN Panic("timestamps[index]: index out of bounds")
    ELSE
    Let(Checked(I32Add(At(denseinfo.timestamp, index), st.last_timestamp),
                "attempt to add with overflow"), LAMBDA sum :
    IF sum.kind = "panic" THEN sum
    ELSE
    Let(Checked(I32Mul(sum.val, date_granularity),
                "attempt to multiply with overflow"), LAMBDA timestamp :
    IF timestamp.kind = "panic" THEN timestamp
    ELSE IF ~(uid_id.val < I32Max) THEN Panic("assert!(uid_id < std::i32::MAX)")
    ELSE IF ~InBounds(stringtable, user_sid.val)
    THEN Panic("stringtable[user_sid]: index out of bounds")
    ELSE IF ~At(stringtable, user_sid.val).some
    THEN Panic("stringtable[user_sid]: unwrap on None")
    ELSE IF ~InBounds(denseinfo.version, index)
    THEN Panic("get_version()[index]: index out of bounds")
    ELSE
    [kind |-> "ok",
     node |-> [type |-> "Node",
               id |-> id,
               tags |-> IF has_tags THEN Some(resolved.tags) ELSE None,
               lat_lon |-> << Degrees(lat_offset + granularity * lat),
                              Degrees(lon_offset + granularity * lon) >>,
               deleted |-> Deleted(denseinfo.visible, index),
               changeset_id |-> AsU32(Accumulate(At(denseinfo.changeset, index),
                                                 st.last_changset)),
               uid |-> AsU32(uid_id.val),
               user |-> At(stringtable, user_sid.val).val,
               version |-> AsU32(At(denseinfo.version, index)),
               timestamp |-> timestamp.val],
     st |-> [keys_vals_index |-> read.kvi, last_id |-> id, last_lat |-> lat,
             last_lon |-> lon, last_timestamp |-> KeptTimestamp(sum.val, timestamp.val),
             last_changset |-> Accumulate(At(denseinfo.changeset, index), st.last_changset),
             last_uid |-> uid_id.val,
             last_user_sid |-> user_sid.val]]))))))

RECURSIVE DenseLoop(_, _, _, _, _, _, _, _, _)
\* for index in index..num_nodes
DenseLoop(dense, index, st, granularity, lat_offset, lon_offset, date_granularity, stringtable, results) ==
    IF index >= Len(dense.id) THEN [kind |-> "ok", results |-> results]
    ELSE Let(DenseNode(dense, index, st, granularity, lat_offset, lon_offset,
                       date_granularity, stringtable), LAMBDA n :
             IF n.kind = "panic" THEN n
             ELSE Let(Append(results, n.node), LAMBDA results2 :
                      DenseLoop(dense, index + 1, n.st, granularity, lat_offset,
                                lon_offset, date_granularity, stringtable, results2)))

\* decode_nodes: unimplemented!
decode_nodes(primitive_group, granularity, lat_offset, lon_offset, date_granularity, stringtable, results) ==
    Panic("unimplemented!(Dense node)")

\* a decoder whose id accumulator starts at the id of the entity decoded last
decode_dense_nodes_CarryId(primitive_group, granularity, lat_offset, lon_offset, date_granularity, stringtable, results) ==
    DenseLoop(primitive_group.dense, 0,
              [DenseStart EXCEPT !.last_id = IF results = <<>> THEN 0 ELSE results[Len(results)].id],
              granularity, lat_offset, lon_offset, date_granularity, stringtable, results)

decode_dense_nodes(primitive_group, granularity, lat_offset, lon_offset, date_granularity, stringtable, results) ==
    DenseLoop(primitive_group.dense, 0, DenseStart, granularity, lat_offset, lon_offset,
              date_granularity, stringtable, results)

\* a decoding that takes every reference as absolute
DeltaDecode_Absolute(refs, k, last_id, acc) == refs

RECURSIVE DeltaDecode(_, _, _, _)
\* refs[0], then each previous value plus the next delta
DeltaDecode(refs, k, last_id, acc) ==
    IF k > Len(refs) THEN acc
    ELSE Let(IF k = 1 THEN refs[1] ELSE Accumulate(refs[k], last_id), LAMBDA v :
             Let(Append(acc, v), LAMBDA acc2 : DeltaDecode(refs, k + 1, v, acc2)))

\* Info::get_visible(): false when the field is not set
GetVisible(info) == IF info.visible.some THEN info.visible.val ELSE FALSE

\* the user name of an info record: stringtable[user_sid].clone().unwrap()
UserOf(info, stringtable) ==
    IF ~InBounds(stringtable, info.user_sid)
    THEN Panic("stringtable[user_sid]: index out of bounds")
    ELSE IF ~At(stringtable, info.user_sid).some
    THEN Panic("stringtable[user_sid]: unwrap on None")
    ELSE [kind |-> "ok", user |-> At(stringtable, info.user_sid).val]

\* the body of the loop of decode_ways for one way
DecodeWay(way, stringtable) ==
    Let(ResolveTags(way.keys, way.vals, stringtable, 1, <<>>), LAMBDA tags :
    LET user == UserOf(way.info, stringtable)
    IN  IF tags.kind = "panic" THEN tags
        ELSE IF user.kind = "panic" THEN user
        ELSE [kind |-> "ok",
              obj |-> [type |-> "Way",
                       id |-> way.id,
                       tags |-> tags.tags,
                       nodes |-> DeltaDecode(way.refs, 1, 0, <<>>),
                       deleted |-> ~GetVisible(way.info),
                       changeset_id |-> AsU32(way.info.changeset),
                       uid |-> AsU32(way.info.uid),
                       user |-> user.user,
                       version |-> AsU32(way.info.version),
                       timestamp |-> way.info.timestamp]])

\* a member list that keeps a member of absent role, with the empty string as role
ResolveMembers_KeepAbsent(types, member_ids, roles_sid, stringtable, k, acc) ==
    LET shortest(a, b) == IF a <= b THEN a ELSE b
        m == shortest(Len(types), shortest(Len(member_ids), Len(roles_sid)))
        text(idx) == IF InBounds(stringtable, idx) /\ At(stringtable, idx).some
                     THEN At(stringtable, idx).val ELSE <<>>
    IN  [kind |-> "ok",
         members |-> [j \in 1..m |-> << types[j], member_ids[j], text(roles_sid[j]) >>]]

RECURSIVE ResolveMembers(_, _, _, _, _, _)
\* member_types.zip(member_ids).zip(roles), keeping the members whose role is present
ResolveMembers(types, member_ids, roles_sid, stringtable, k, acc) ==
    IF k > Len(types) \/ k > Len(member_ids) \/ k > Len(roles_sid)
    THEN [kind |-> "ok", members |-> acc]
    ELSE IF ~InBounds(stringtable, roles_sid[k])
    THEN Panic("stringtable[idx]: index out of bounds")
    ELSE LET r == At(stringtable, roles_sid[k])
         IN  Let(IF r.some THEN Append(acc, << types[k], member_ids[k], r.val >>) ELSE acc,
                 LAMBDA acc2 : ResolveMembers(types, member_ids, roles_sid, stringtable,
                                              k + 1, acc2))

\* the body of the loop of decode_relations for one relation
DecodeRelation(relation, stringtable) ==
    Let(ResolveTags(relation.keys, relation.vals, stringtable, 1, <<>>), LAMBDA tags :
    Let(ResolveMembers(relation.types, DeltaDecode(relation.memids, 1, 0, <<>>),
                       relation.roles_sid, stringtable, 1, <<>>), LAMBDA members :
    LET user == UserOf(relation.info, stringtable)
    IN  IF tags.kind = "panic" THEN tags
        ELSE IF members.kind = "panic" THEN members
        ELSE IF user.kind = "panic" THEN user
        ELSE [kind |-> "ok",
              obj |-> [type |-> "Relation",
                       id |-> relation.id,
                       tags |-> tags.tags,
                       members |-> members.members,
                       deleted |-> ~GetVisible(relation.info),
                       changeset_id |-> AsU32(relation.info.changeset),
                       uid |-> AsU32(relation.info.uid),
                       user |-> user.user,
                       version |-> AsU32(relation.info.version),
                       timestamp |-> relation.info.timestamp]]))

RECURSIVE decode_ways_from(_, _, _, _)
decode_ways_from(ways, k, stringtable, results) ==
    IF k > Len(ways) THEN [kind |-> "ok", results |-> results]
    ELSE Let(DecodeWay(ways[k], stringtable), LAMBDA w :
             IF w.kind = "panic" THEN w
             ELSE Let(Append(results, w.obj),
                      LAMBDA results2 : decode_ways_from(ways, k + 1, stringtable, results2)))

\* a decoder of ways that scales the timestamp like the dense decoder
decode_ways_Scaled(primitive_group, granularity, lat_offset, lon_offset, date_granularity, stringtable, results) ==
    LET r == decode_ways_from(primitive_group.ways, 1, stringtable, results)
    IN  IF r.kind = "panic" THEN r
        ELSE [r EXCEPT !.results = [k \in DOMAIN r.results |->
                 IF k <= Len(results) THEN r.results[k]
                 ELSE [r.results[k] EXCEPT !.timestamp = @ * date_granularity]]]

decode_ways(primitive_group, granularity, lat_offset, lon_offset, date_granularity, stringtable, results) ==
    decode_ways_from(primitive_group.ways, 1, stringtable, results)

RECURSIVE decode_relations_from(_, _, _, _)
decode_relations_from(relations, k, stringtable, results) ==
    IF k > Len(relations) THEN [kind |-> "ok", results |-> results]
    ELSE Let(DecodeRelation(relations[k], stringtable), LAMBDA r :
             IF r.kind = "panic" THEN r
             ELSE Let(Append(results, r.obj),
                      LAMBDA results2 : decode_relations_from(relations, k + 1, stringtable,
                                                              results2)))

decode_relations(primitive_group, granularity, lat_offset, lon_offset, date_granularity, stringtable, results) ==
    decode_relations_from(primitive_group.relations, 1, stringtable, results)

----------------------------------------------------------------------------
(* Group dispatcher and block decoder *)

\* the branch decode_primitive_group_to_objs takes
GroupDecoder_DenseFirst(primitive_group) ==
    IF primitive_group.has_dense THEN "decode_dense_nodes"
    ELSE IF primitive_group.nodes # <<>> THEN "decode_nodes"
    ELSE IF primitive_group.ways # <<>> THEN "decode_ways"
    ELSE IF primitive_group.relations # <<>> THEN "decode_relations"
    ELSE "unreachable"

GroupDecoder(primitive_group) ==
    IF primitive_group.nodes # <<>> THEN "decode_nodes"
    ELSE IF primitive_group.has_dense THEN "decode_dense_nodes"
    ELSE IF primitive_group.ways # <<>> THEN "decode_ways"
    ELSE IF primitive_group.relations # <<>> THEN "decode_relations"
    ELSE "unreachable"

\* decode_primitive_group_to_objs: [kind |-> "ok", results, decoder] or a panic
\* (decoder names the decoder that was called)
decode_primitive_group_to_objs(primitive_group, granularity, lat_offset, lon_offset, date_granularity, stringtable, results) ==
    LET dg == TruncDiv(date_granularity, 1000)
        decoder == GroupDecoder(primitive_group)
    IN  Let(CASE decoder = "decode_nodes" ->
                    decode_nodes(primitive_group, granularity, lat_offset, lon_offset,
                                 dg, stringtable, results)
               [] decoder = "decode_dense_nodes" ->
                    decode_dense_nodes(primitive_group, granularity, lat_offset, lon_offset,
                                       dg, stringtable, results)
               [] decoder = "decode_ways" ->
                    decode_ways(primitive_group, granularity, lat_offset, lon_offset,
                                dg, stringtable, results)
               [] decoder = "decode_relations" ->
                    decode_relations(primitive_group, granularity, lat_offset, lon_offset,
                                     dg, stringtable, results)
               [] OTHER -> Panic("unreachable!()"),
            LAMBDA r : r @@ [decoder |-> decoder])

\* a string table that leaves the bad strings out, shifting the later indexes
ResolveStringTable_DropBad(raw) ==
    LET kept == SelectSeq(raw, LAMBDA chars : Utf8Valid(chars, 1))
    IN  [k \in 1..Len(kept) |-> Some(kept[k])]

\* the string table of decode_block_to_objs: each raw string as Some(text) when it
\* is valid UTF-8 and None otherwise
ResolveStringTable(raw) ==
    [k \in 1..Len(raw) |-> IF Utf8Valid(raw[k], 1) THEN Some(raw[k]) ELSE None]

RECURSIVE decode_groups(_, _, _, _)
\* for primitive_group in block.get_primitivegroup(), from the k-th group
decode_groups(block, k, stringtable, results) ==
    IF k > Len(block.primitivegroup) THEN [kind |-> "ok", results |-> results]
    ELSE Let(decode_primitive_group_to_objs(block.primitivegroup[k],
                 block.granularity, block.lat_offset, block.lon_offset,
                 block.date_granularity, stringtable, results), LAMBDA r :
             IF r.kind = "panic" THEN r
             ELSE decode_groups(block, k + 1, stringtable, r.results))

\* decode_block_to_objs: [kind |-> "ok", results] or a panic
decode_block_to_objs(block) ==
    Let(ResolveStringTable(block.stringtable),
        LAMBDA stringtable : decode_groups(block, 1, stringtable, <<>>))

----------------------------------------------------------------------------
(* Blocks and groups the model reads *)

\* a DenseInfo / DenseNodes / PrimitiveGroup message with no field set
NoDenseInfo ==
    [version |-> <<>>, timestamp |-> <<>>, changeset |-> <<>>, uid |-> <<>>,
     user_sid |-> <<>>, visible |-> <<>>]
NoDense == [id |-> <<>>, lat |-> <<>>, lon |-> <<>>, keys_vals |-> <<>>,
            denseinfo |-> NoDenseInfo]
NoGroup == [nodes |-> <<>>, has_dense |-> FALSE, dense |-> NoDense, ways |-> <<>>,
            relations |-> <<>>]

\* a dense group of Len(id) nodes with every column as long as the id column
DenseGroup(id, timestamp, changeset, uid, user_sid) ==
    [NoGroup EXCEPT
        !.has_dense = TRUE,
        !.dense = [id |-> id, lat |-> id, lon |-> id, keys_vals |-> <<>>,
                   denseinfo |-> [version |-> [k \in 1..Len(id) |-> 1],
                                  timestamp |-> timestamp, changeset |-> changeset,
                                  uid |-> uid, user_sid |-> user_sid,
                                  visible |-> <<>>]]]

InfoRec(timestamp, user_sid) ==
    [version |-> 1, timestamp |-> timestamp, changeset |-> 4, uid |-> 6,
     user_sid |-> user_sid, visible |-> Some(TRUE)]

\* raw strings: "", "a", "b" and a byte string that is not UTF-8
RawStrings == << <<>>, << 97 >>, << 98 >>, << 255 >> >>

PlainNode1 == [id |-> 1]
Way1 == [id |-> 10, keys |-> << 1 >>, vals |-> << 2 >>, refs |-> << 5, 3, -1 >>,
         info |-> InfoRec(1000, 1)]
Way2 == [id |-> 11, keys |-> <<>>, vals |-> <<>>, refs |-> <<>>, info |-> InfoRec(2000, 2)]
Relation1 == [id |-> 20, keys |-> << 1 >>, vals |-> << 1 >>, roles_sid |-> << 1, 0 >>,
              memids |-> << 7, 2 >>, types |-> << "Node", "Way" >>,
              info |-> InfoRec(3000, 1)]

BlockOfGroups(groups) ==
    [stringtable |-> RawStrings, granularity |-> 100, lat_offset |-> 0, lon_offset |-> 0,
     date_granularity |-> 1000, primitivegroup |-> groups]

\* The PrimitiveBlock messages of the model.  The bytes of a serialized block are
\* kept abstract: block k of this table is written as the single byte k.
BlockTable ==
    << \* 1: one dense group of two nodes
       BlockOfGroups(<< DenseGroup(<< 5, 3 >>, << 1, 2 >>, << 2, 0 >>, << 1, 1 >>,
                                   << 1, 0 >>) >>),
       \* 2: a dense group, a way group and a relation group
       BlockOfGroups(<< DenseGroup(<< 1, 1 >>, << 3, 1 >>, << 1, 1 >>, << 2, 0 >>,
                                   << 2, -1 >>),
                        [NoGroup EXCEPT !.ways = << Way1, Way2 >>],
                        [NoGroup EXCEPT !.relations = << Relation1 >>] >>),
       \* 3: no group at all
       BlockOfGroups(<<>>),
       \* 4: a group with no variant populated
       BlockOfGroups(<< NoGroup >>),
       \* 5: a dense group of two nodes, the first with two tags, and a dense
       \* group of one node without tags
       BlockOfGroups(<< [DenseGroup(<< 5, 3 >>, << 1, 2 >>, << 2, 0 >>, << 1, 1 >>, << 1, 0 >>)
                            EXCEPT !.dense.keys_vals = << 1, 2, 2, 1, 0, 0 >>],
                        DenseGroup(<< 9 >>, << 3 >>, << 1 >>, << 2 >>, << 2 >>) >>),
       \* 6: a dense group of two nodes whose key/value array ends after a key
       BlockOfGroups(<< [DenseGroup(<< 5, 3 >>, << 1, 2 >>, << 2, 0 >>, << 1, 1 >>, << 1, 0 >>)
                            EXCEPT !.dense.keys_vals = << 1, 2, 0, 1 >>] >>) >>

SerializeBlock(k) == << k >>

\* protobuf::parse_from_bytes::<osmformat::PrimitiveBlock>
ParsePrimitiveBlock(bytes) ==
    IF Len(bytes) = 1 /\ bytes[1] \in 1..Len(BlockTable)
    THEN [ok |-> TRUE, block |-> BlockTable[bytes[1]]]
    ELSE [ok |-> FALSE]

\* the blocks of BlockTable that satisfy the format's data model
WellFormedBlocks == { 1, 2, 3 }

----------------------------------------------------------------------------
(* PBFReader *)

\* objs.reverse(): the batch is stored last-first, so that pop() serves it in order
Batch_NoReverse(objs) == objs

Batch(objs) == Reverse(objs)

\* a reader that reads one block per call and returns None when the block
\* holds no entity
next_NoneOnEmptyBlock(s, p, buffer) ==
    IF buffer # <<>>
    THEN [kind |-> "Some", val |-> buffer[Len(buffer)], pos |-> p,
          buffer |-> SubSeq(buffer, 1, Len(buffer) - 1)]
    ELSE
    Let(get_next_osmdata_blob(s, p), LAMBDA blob :
    IF blob.kind = "None" THEN [kind |-> "None", pos |-> blob.pos, buffer |-> buffer]
    ELSE IF blob.kind = "panic" THEN blob @@ [buffer |-> buffer]
    ELSE
    Let(blob_raw_data(blob.blob), LAMBDA blob_data :
    IF blob_data.kind = "panic" THEN blob_data @@ [pos |-> blob.pos, buffer |-> buffer]
    ELSE IF ~blob_data.val.some
    THEN Panic("blob_raw_data(..).unwrap() on None") @@ [pos |-> blob.pos, buffer |-> buffer]
    ELSE
    Let(ParsePrimitiveBlock(blob_data.val.val), LAMBDA block :
    IF ~block.ok
    THEN Panic("parse PrimitiveBlock: unwrap on Err") @@ [pos |-> blob.pos, buffer |-> buffer]
    ELSE
    Let(decode_block_to_objs(block.block), LAMBDA objs :
    IF objs.kind = "panic"
    THEN Panic(objs.why) @@ [pos |-> blob.pos, buffer |-> buffer]
    ELSE Let(Batch(objs.results), LAMBDA batch :
             IF batch = <<>> THEN [kind |-> "None", pos |-> blob.pos, buffer |-> batch]
             ELSE [kind |-> "Some", val |-> batch[Len(batch)], pos |-> blob.pos,
                   buffer |-> SubSeq(batch, 1, Len(batch) - 1)])))))

RECURSIVE next(_, _, _)
\* PBFReader::next with the reader at offset p and _buffer = buffer:
\*   [kind |-> "Some", val, pos, buffer], [kind |-> "None", pos, buffer] or a panic
next(s, p, buffer) ==
    IF buffer # <<>>
    THEN [kind |-> "Some", val |-> buffer[Len(buffer)], pos |-> p,
          buffer |-> SubSeq(buffer, 1, Len(buffer) - 1)]
    ELSE
    Let(get_next_osmdata_blob(s, p), LAMBDA blob :
    IF blob.kind = "None" THEN [kind |-> "None", pos |-> blob.pos, buffer |-> buffer]
    ELSE IF blob.kind = "panic" THEN blob @@ [buffer |-> buffer]
    ELSE
    Let(blob_raw_data(blob.blob), LAMBDA blob_data :
    IF blob_data.kind = "panic" THEN blob_data @@ [pos |-> blob.pos, buffer |-> buffer]
    ELSE IF ~blob_data.val.some
    THEN Panic("blob_raw_data(..).unwrap() on None") @@ [pos |-> blob.pos, buffer |-> buffer]
    ELSE
    Let(ParsePrimitiveBlock(blob_data.val.val), LAMBDA block :
    IF ~block.ok
    THEN Panic("parse PrimitiveBlock: unwrap on Err") @@ [pos |-> blob.pos, buffer |-> buffer]
    ELSE
    Let(decode_block_to_objs(block.block), LAMBDA objs :
    IF objs.kind = "panic"
    THEN Panic(objs.why) @@ [pos |-> blob.pos, buffer |-> buffer]
    ELSE Let(Batch(objs.results), LAMBDA batch : next(s, blob.pos, batch))))))

----------------------------------------------------------------------------
(* The streams of the model *)

\* a zlib stream whose checksum does not match its data
Corrupt(z) == [z EXCEPT ![Len(z)] = (z[Len(z)] + 1) % 256]

\* a zlib stream that ends k bytes early
Truncated(z, k) == SubSeq(z, 1, Len(z) - k)

\* a zlib stream whose header asks for a preset dictionary (FDICT set, FCHECK
\* adjusted)
WithDictionary(z) == << 120, 187 >> \o SubSeq(z, 3, Len(z))

FrameChoices ==
    { \* a header frame: its body is skipped unread
      Frame(OSMHeader, Some(<< 9 >>), None, None, None),
      \* blocks 1, 3 and 4 stored raw, block 1 under a header with three fields
      \* the reader does not know: field 4 as fixed32, field 5 as fixed64 and
      \* field 16 (a tag of two bytes) as varint
      WithHeaderFields(Frame(OSMData, Some(SerializeBlock(1)), None, None,
                             Some(SerializeBlock(1))),
                       << 37, 1, 2, 3, 4 >> \o << 41, 1, 2, 3, 4, 5, 6, 7, 8 >>
                       \o << 128, 1, 0 >>),
      Frame(OSMData, Some(SerializeBlock(3)), None, None, Some(SerializeBlock(3))),
      Frame(OSMData, Some(SerializeBlock(4)), None, None, Some(SerializeBlock(4))),
      \* block 2 compressed, with a size hint smaller than its size
      Frame(OSMData, None, Some(0), Some(Deflate(SerializeBlock(2))),
            Some(SerializeBlock(2))),
      \* both representations: block 1 raw, block 2 compressed
      Frame(OSMData, Some(SerializeBlock(1)), Some(1), Some(Deflate(SerializeBlock(2))),
            Some(SerializeBlock(1))),
      \* neither representation
      Frame(OSMData, None, None, None, None),
      \* compressed data that fails its checksum
      Frame(OSMData, None, Some(1), Some(Corrupt(Deflate(SerializeBlock(1)))), None),
      \* block 2 compressed, the stream ending inside its checksum
      Frame(OSMData, None, None, Some(Truncated(Deflate(SerializeBlock(2)), 1)),
            Some(SerializeBlock(2))) }

FrameLists == SeqsUpTo(FrameChoices, MaxFrames)

\* a stream may end anywhere inside its last frame
Cuts(fs) == IF fs = <<>> THEN { 0 } ELSE 0..(Len(EncodeFrame(fs[Len(fs)])) - 1)

InitStream ==
    \E fs \in FrameLists : \E cut \in Cuts(fs) :
        /\ frames = [list |-> fs, cut |-> cut]
        /\ overflow_checks = TRUE /\ stream = StreamOf(fs, cut)

----------------------------------------------------------------------------
(* Spec: a PBFReader over a stream *)

Init ==
    /\ InitStream
    /\ pos = 0
    /\ _buffer = <<>>
    /\ _sorted_assumption = FALSE
    /\ ret = [kind |-> "init"]
    /\ out = <<>>
    /\ nones = 0
    /\ arg = 0
    /\ res = 0
    /\ NoXml

\* a call of PBFReader::next
NextCall ==
    /\ ret.kind # "panic"
    /\ nones < MaxNone
    /\ \E r \in { next(stream, pos, _buffer) } :
           /\ pos' = r.pos
           /\ _buffer' = r.buffer
           /\ ret' = CASE r.kind = "Some" -> [kind |-> "Some", val |-> r.val]
                       [] r.kind = "None" -> [kind |-> "None"]
                       [] OTHER -> [kind |-> "panic", why |-> r.why]
           /\ out' = IF r.kind = "Some" THEN Append(out, r.val) ELSE out
           /\ nones' = IF r.kind = "None" THEN nones + 1 ELSE nones
    /\ UNCHANGED <<overflow_checks, stream, frames, _sorted_assumption, arg, res, xml>>

\* a setter that also drops the entities waiting in the buffer
set_sorted_assumption_DropsBuffer(sorted_assumption) ==
    /\ _sorted_assumption' = sorted_assumption
    /\ _buffer' = <<>>
    /\ UNCHANGED <<overflow_checks, stream, frames, pos, ret, out, nones, arg, res, xml>>

\* PBFReader::set_sorted_assumption: self._sorted_assumption = sorted_assumption
set_sorted_assumption(sorted_assumption) ==
    /\ _sorted_assumption' = sorted_assumption
    /\ UNCHANGED <<overflow_checks, stream, frames, pos, _buffer, ret, out, nones, arg, res, xml>>

\* PBFReader::get_sorted_assumption: self._sorted_assumption
get_sorted_assumption == _sorted_assumption

\* a call of PBFReader::set_sorted_assumption
SetSortedAssumption ==
    /\ ret.kind # "panic"
    /\ \E sorted_assumption \in BOOLEAN : set_sorted_assumption(sorted_assumption)

Next == NextCall \/ SetSortedAssumption

Spec == Init /\ [][Next]_vars

----------------------------------------------------------------------------
(* SpecFile: the FileReader iterator alone over a stream *)

\* a call of FileReader::next, which is get_next_osmdata_blob; arg keeps the
\* offset the call started from
FileNext ==
    /\ ret.kind # "panic"
    /\ nones < MaxNone
    /\ \E r \in { get_next_osmdata_blob(stream, pos) } :
           /\ pos' = r.pos
           /\ ret' = CASE r.kind = "Some" -> [kind |-> "Some", blob |-> r.blob]
                       [] r.kind = "None" -> [kind |-> "None"]
                       [] OTHER -> [kind |-> "panic", why |-> r.why]
           /\ nones' = IF r.kind = "None" THEN nones + 1 ELSE nones
    /\ arg' = pos
    /\ UNCHANGED <<overflow_checks, stream, frames, _buffer, _sorted_assumption, out, res, xml>>

SpecFile == Init /\ [][FileNext]_vars

----------------------------------------------------------------------------
(* SpecBlob: payload extraction from one Blob *)

\* payload bytes of the inputs
BlobData == SeqsUpTo({ 0, 7 }, MaxData)

\* the bytes 7 and 0 7 compressed into one block of fixed Huffman codes
HuffmanStreams ==
    { [zlib_data |-> Some(<< 120, 1, 99, 7, 0, 0, 8, 0, 8 >>), data |-> Some(<< 7 >>)],
      [zlib_data |-> Some(<< 120, 1, 99, 96, 7, 0, 0, 9, 0, 8 >>), data |-> Some(<< 0, 7 >>)] }

\* streams no compressor writes: a match that starts before the output, after
\* one literal and with no output at all, without and with a checksum
FarMatchStreams ==
    { [zlib_data |-> Some(<< 120, 1, 99, 5, 66, 0 >>), data |-> None],
      [zlib_data |-> Some(<< 120, 1, 3, 2, 0, 0, 3, 0, 1 >>), data |-> None] }

\* a Blob as written: raw, raw_size and zlib_data as in Frame, and data, the
\* bytes that were compressed into zlib_data (None when it holds no valid
\* stream: a failed checksum, a stream that ends early, which may be empty, a
\* header that asks for a dictionary, a match that starts before the output)
BlobInputs ==
    { [raw |-> r, raw_size |-> h, zlib_data |-> z.zlib_data, data |-> z.data] :
        r \in { None } \cup { Some(d) : d \in BlobData },
        h \in { None } \cup { Some(n) : n \in (-1)..(MaxData + 1) },
        z \in { [zlib_data |-> None, data |-> None] }
              \cup { [zlib_data |-> Some(Deflate(d)), data |-> Some(d)] : d \in BlobData }
              \cup HuffmanStreams \cup FarMatchStreams
              \cup { [zlib_data |-> Some(Corrupt(Deflate(d))), data |-> None] :
                       d \in BlobData }
              \cup { [zlib_data |-> Some(Truncated(Deflate(d), k)), data |-> None] :
                       d \in BlobData, k \in { 1, 5, 11 } }
              \cup { [zlib_data |-> Some(WithDictionary(Deflate(d))), data |-> None] :
                       d \in BlobData } }

Pending == [kind |-> "pending"]

InitBlob ==
    /\ arg \in BlobInputs
    /\ res = Pending
    /\ overflow_checks = TRUE /\ stream = <<>> /\ frames = [list |-> <<>>, cut |-> 0] /\ pos = 0
    /\ _buffer = <<>> /\ _sorted_assumption = FALSE
    /\ ret = [kind |-> "init"] /\ out = <<>> /\ nones = 0
    /\ NoXml

\* the Blob is parsed from its bytes and handed to blob_raw_data
ExtractPayload ==
    /\ res = Pending
    /\ res' = blob_raw_data(ParseBlob(EncodeBlob(arg.raw, arg.raw_size, arg.zlib_data)))
    /\ UNCHANGED <<overflow_checks, stream, frames, pos, _buffer, _sorted_assumption, ret, out, nones, arg, xml>>

SpecBlob == InitBlob /\ [][ExtractPayload]_vars

----------------------------------------------------------------------------
(* SpecGroup: the dispatcher and the decoders on one group *)

\* all columns of n deltas over D
Columns(D, n) == SeqsOfLen(D, n)

DenseInputs ==
    UNION { { DenseGroup(id, timestamp, [k \in 1..n |-> info[k][1]],
                         [k \in 1..n |-> info[k][2]], user_sid) :
                id \in Columns({ -1, 2 }, n), timestamp \in Columns({ 1, 2 }, n),
                \* a changeset delta and a uid delta per node
                info \in Columns({ << 0, 0 >>, << 3, 2 >> }, n),
                user_sid \in Columns({ 0, 1, 2 }, n) } : n \in 0..MaxNodes }

\* groups with every combination of populated variants
VariantInputs ==
    { [nodes |-> nodes, has_dense |-> dense.has_dense, dense |-> dense.dense,
       ways |-> ways, relations |-> relations] :
        nodes \in { <<>>, << PlainNode1 >> },
        dense \in { NoGroup,
                    DenseGroup(<<>>, <<>>, <<>>, <<>>, <<>>),
                    DenseGroup(<< 4 >>, << 1 >>, << 1 >>, << 1 >>, << 1 >>) },
        ways \in { <<>>, << Way1 >>, << Way1, Way2 >> },
        relations \in { <<>>, << Relation1 >> } }

\* dense groups of two nodes whose user id column or timestamp column leaves
\* the i32 range while it is accumulated or scaled
OverflowDense ==
    { DenseGroup(<< 1, 1 >>, timestamp, << 0, 0 >>, uid, << 1, 0 >>) :
        timestamp \in { << 1, 1 >>, << I32Max, 1 >>, << 1073741824, 0 >> },
        uid \in { << 2, 0 >>, << I32Max - 1, 2 >>, << I32Min, -1 >>, << -1, I32Min >> } }

GroupInputs ==
    { [primitive_group |-> g, date_granularity |-> dg] :
        g \in DenseInputs \cup VariantInputs \cup OverflowDense, dg \in { 1000, 2000, 500 } }

InitGroup ==
    /\ arg \in GroupInputs
    /\ res = Pending
    /\ overflow_checks \in BOOLEAN /\ stream = <<>> /\ frames = [list |-> <<>>, cut |-> 0] /\ pos = 0
    /\ _buffer = <<>> /\ _sorted_assumption = FALSE
    /\ ret = [kind |-> "init"] /\ out = <<>> /\ nones = 0
    /\ NoXml

\* the string table every group of SpecGroup is decoded with
GroupStrings == ResolveStringTable(RawStrings)

\* decode_primitive_group_to_objs on the group, into an empty results vector
DecodeGroup ==
    /\ res = Pending
    /\ res' = decode_primitive_group_to_objs(arg.primitive_group, 100, 0, 0,
                                             arg.date_granularity, GroupStrings, <<>>)
    /\ UNCHANGED <<overflow_checks, stream, frames, pos, _buffer, _sorted_assumption, ret, out, nones, arg, xml>>

SpecGroup == InitGroup /\ [][DecodeGroup]_vars

----------------------------------------------------------------------------
(* Properties of the reader over a stream *)

\* the entities of block number k, in the order the decoder emits them
EntitiesOfBlock(k) ==
    LET r == decode_block_to_objs(BlockTable[k])
    IN  IF r.kind = "ok" THEN r.results ELSE <<>>

\* the entities of the entity-data frames of fs, frame after frame
EntitiesInFileOrder(fs) ==
    Concat([k \in 1..Len(fs) |->
              IF fs[k].kind = OSMData /\ fs[k].payload.some
              THEN EntitiesOfBlock(fs[k].payload.val[1]) ELSE <<>>])

\* a complete stream whose entity-data frames all hold a decodable block
WellFormedStream ==
    /\ frames.cut = 0
    /\ \A k \in 1..Len(frames.list) :
          frames.list[k].kind = OSMData =>
              /\ frames.list[k].payload.some
              /\ frames.list[k].payload.val[1] \in WellFormedBlocks

\* entity a is entity b: the same type and the same fields
SameEntity(a, b) == a.type = b.type /\ a = b

\* the entities of s are the first entities of t
LeadingEntities(s, t) ==
    /\ Len(s) <= Len(t)
    /\ \A i \in 1..Len(s) : SameEntity(s[i], t[i])

\* C1: over a well-formed stream, repeated next() calls never fail, the entities
\* returned so far are the leading entities of the file (frames in stream order,
\* each block's entities in decoder order, none repeated or skipped), each call's
\* return value is the next entity of that order, and None is returned only when
\* every entity of every entity-data frame has been returned.
C1_EntitiesInFileOrder ==
    WellFormedStream =>
        LET expected == EntitiesInFileOrder(frames.list)
        IN  /\ ret.kind # "panic"
            /\ LeadingEntities(out, expected)
            /\ ret.kind = "Some" => SameEntity(ret.val, expected[Len(out)])
            /\ ret.kind = "None" => Len(out) = Len(expected)

\* two blocks (a raw one, then a compressed one with three groups) served to the end
C1_Witness ==
    /\ WellFormedStream
    /\ ret.kind = "None"
    /\ Len(frames.list) >= 2
    /\ Len(out) >= 4
    /\ \E i \in 1..Len(out) : \E j \in (i + 1)..Len(out) :
          out[i].type = "Node" /\ out[j].type = "Way"

\* C2: once next() has returned None it returns None on every later call, and no
\* entity is returned any more.
C2_ExhaustionIsPermanent ==
    [][ret.kind = "None" => ret'.kind = "None" /\ out' = out]_vars

\* entities were returned, then None twice in a row
C2_Witness == nones >= 2 /\ out # <<>> /\ ret.kind = "None"

\* frame k of the stream is an entity-data frame with neither payload field, and
\* the reader has just consumed it
AtEmptyPayloadFrame(k) ==
    /\ frames.list[k].kind = OSMData
    /\ ~frames.list[k].raw.some
    /\ ~frames.list[k].zlib_data.some
    /\ FrameEnd(frames.list, k) <= Len(stream)
    /\ pos = FrameEnd(frames.list, k)

\* C3: a call that reaches an entity-data frame with neither raw nor compressed
\* payload ends with a format error (or ends the iteration), never with an abort.
C3_EmptyPayloadIsFormatError ==
    \A k \in 1..Len(frames.list) :
        AtEmptyPayloadFrame(k) => ret.kind \in { "FormatError", "None" }

----------------------------------------------------------------------------
(* Properties of the frame reader *)

\* C4: the frame reader reports the end of the stream only at a frame boundary;
\* on a stream cut inside a frame the call that runs into the cut ends with a
\* framing error.
C4_TruncationIsFramingError ==
    /\ ret.kind = "None" => frames.cut = 0
    /\ (frames.cut > 0 /\ ret.kind \notin { "init", "Some" }) => ret.kind = "FramingError"

\* the number of whole frames before offset off of the stream written from fs
FramesBefore(fs, off) == CHOOSE j \in 0..Len(fs) : FrameEnd(fs, j) = off

\* C5: over complete frames, a call of the frame reader started at a frame
\* boundary returns the blob of the first entity-data frame at or after that
\* boundary and stops just after it, whatever the kinds of the frames skipped;
\* with no such frame it returns None at the end of the stream.
C5_OtherKindsAreSkipped ==
    (frames.cut = 0 /\ ret.kind # "init") =>
        LET fs == frames.list
            j == FramesBefore(fs, arg)
            data == { k \in (j + 1)..Len(fs) : fs[k].kind = OSMData }
        IN  IF data = {}
            THEN ret = [kind |-> "None"] /\ pos = Len(stream)
            ELSE LET k == CHOOSE m \in data : \A n \in data : m <= n
                 IN  /\ ret = [kind |-> "Some", blob |-> BlobOf(fs[k])]
                     /\ pos = FrameEnd(fs, k)

\* a header frame was skipped and the entity-data frame after it returned
C5_Witness ==
    /\ frames.cut = 0
    /\ Len(frames.list) = 2
    /\ frames.list[1].kind = OSMHeader
    /\ frames.list[2].kind = OSMData
    /\ arg = 0
    /\ ret.kind = "Some"
    /\ pos = Len(stream)

----------------------------------------------------------------------------
(* Properties of payload extraction *)

\* C6: payload extraction returns the raw field unchanged whenever it is present;
\* with raw absent and a compressed field holding a valid stream it returns the
\* bytes that were compressed, whatever the declared uncompressed size.
C6_HintIsOnlyAHint ==
    res # Pending =>
        /\ arg.raw.some => res = [kind |-> "ok", val |-> Some(arg.raw.val)]
        /\ (~arg.raw.some /\ arg.data.some) =>
               res = [kind |-> "ok", val |-> Some(arg.data.val)]

----------------------------------------------------------------------------
(* Properties of the group dispatcher and the dense-node decoder *)

\* the group of the state has been handed to the dispatcher
Decided == res # Pending

\* at least one of the four variants of group g is populated
Populated(g) == g.nodes # <<>> \/ g.has_dense \/ g.ways # <<>> \/ g.relations # <<>>

\* every entity of results has type t, and there are n of them
AllOfType(results, t, n) ==
    Len(results) = n /\ \A i \in 1..n : results[i].type = t

\* C7: for a group with a populated variant the decoder invoked is the first of
\* plain nodes (list non-empty), dense nodes (payload present), ways (list
\* non-empty), relations (list non-empty), and the entities of the group come
\* from that variant alone: a plain-node group contributes nothing from its
\* dense, way or relation data.
C7_FixedPriority ==
    LET g == arg.primitive_group
        ran(decoder) == res.decoder = decoder
        done == res.kind = "ok"
    IN  (Decided /\ Populated(g)) =>
            IF g.nodes # <<>>
            THEN ran("decode_nodes") /\ ~(done /\ res.results # <<>>)
            ELSE IF g.has_dense
            THEN ran("decode_dense_nodes")
                 /\ (done => AllOfType(res.results, "Node", Len(g.dense.id)))
            ELSE IF g.ways # <<>>
            THEN ran("decode_ways")
                 /\ (done => AllOfType(res.results, "Way", Len(g.ways)))
            ELSE ran("decode_relations")
                 /\ (done => AllOfType(res.results, "Relation", Len(g.relations)))

\* plain nodes together with a populated dense payload and ways: plain nodes win
C7_Witness ==
    /\ Decided
    /\ arg.primitive_group.nodes # <<>>
    /\ arg.primitive_group.has_dense
    /\ arg.primitive_group.dense.id # <<>>
    /\ arg.primitive_group.ways # <<>>
    /\ res.decoder = "decode_nodes"

\* C8: a group with none of the four variants populated makes decoding report a
\* FormatError; it neither decodes to no entities nor aborts.
C8_EmptyGroupIsFormatError ==
    (Decided /\ ~Populated(arg.primitive_group)) => res.kind = "FormatError"

\* the dense decoder ran on the group of the state
DenseDecided ==
    Decided /\ arg.primitive_group.nodes = <<>> /\ arg.primitive_group.has_dense

\* index sid names a present entry of the string table
UserPresent(sid) == InBounds(GroupStrings, sid) /\ At(GroupStrings, sid).some

RECURSIVE I32Sum(_, _)
\* the sum of the first i deltas of column d in i32: [overflow, val], overflow
\* when some partial sum has left the i32 range, val the wrapped sum
I32Sum(d, i) ==
    IF i = 0 THEN [overflow |-> FALSE, val |-> 0]
    ELSE Let(I32Sum(d, i - 1), LAMBDA s :
             Let(I32Add(s.val, d[i]), LAMBDA t :
                 [overflow |-> s.overflow \/ t.overflow, val |-> t.val]))

RECURSIVE PrefixSumU32(_, _)
\* the sum of the first i deltas of column d as a u32
PrefixSumU32(d, i) == IF i = 0 THEN << 0, 0 >> ELSE U32Add(PrefixSumU32(d, i - 1), AsU32(d[i]))

RECURSIVE Scaled(_, _, _)
\* the timestamp of node i as the dense decoder computes it in i32 from the
\* delta column ts and the scale dg: [overflow, val], overflow when a sum or
\* a product up to node i has left the i32 range
Scaled(ts, i, dg) ==
    IF i = 0 THEN [overflow |-> FALSE, val |-> 0]
    ELSE Let(Scaled(ts, i - 1, dg), LAMBDA last :
             Let(I32Add(ts[i], last.val), LAMBDA sum :
                 Let(I32Mul(sum.val, dg), LAMBDA scaled :
                     [overflow |-> last.overflow \/ sum.overflow \/ scaled.overflow,
                      val |-> scaled.val])))

\* the columns of dense all have the length of its id column, every accumulated
\* user id is in range, every accumulated user-name index names a string and
\* no timestamp leaves the i32 range
WellFormedDense(dense) ==
    LET info == dense.denseinfo
        N == Len(dense.id)
    IN  /\ Len(dense.lat) = N /\ Len(dense.lon) = N /\ dense.keys_vals = <<>>
        /\ Len(info.version) = N /\ Len(info.timestamp) = N
        /\ Len(info.changeset) = N /\ Len(info.uid) = N /\ Len(info.user_sid) = N
        /\ \A i \in 1..N : /\ UserPresent(PrefixSum(info.user_sid, i))
                           /\ ~I32Sum(info.uid, i).overflow
                           /\ PrefixSum(info.uid, i) >= 0
                           /\ PrefixSum(info.uid, i) < I32Max
                           /\ ~Scaled(info.timestamp, i, TruncDiv(arg.date_granularity, 1000)).overflow

\* C9: the dense decoder emits, for a well-formed group of N ids, exactly N
\* nodes in index order; whenever it returns, node i has the prefix sum of the
\* id deltas up to i as id, and its changeset id, user id and user name are
\* those of the prefix sums of their delta columns.
C9_DensePrefixSums ==
    DenseDecided =>
        LET dense == arg.primitive_group.dense
            info == dense.denseinfo
            N == Len(dense.id)
        IN  /\ WellFormedDense(dense) => res.kind = "ok"
            /\ res.kind = "ok" =>
                  /\ AllOfType(res.results, "Node", N)
                  /\ \A i \in 1..N :
                        /\ res.results[i].id = PrefixSum(dense.id, i)
                        /\ res.results[i].changeset_id = AsU32(PrefixSum(info.changeset, i))
                        /\ res.results[i].uid = PrefixSumU32(info.uid, i)
                        /\ res.results[i].user
                              = At(GroupStrings, PrefixSum(info.user_sid, i)).val

\* two nodes, the second with non-zero deltas in every column
C9_Witness ==
    /\ DenseDecided
    /\ res.kind = "ok"
    /\ Len(res.results) >= 2
    /\ arg.primitive_group.dense.id[1] # 0
    /\ arg.primitive_group.dense.id[2] # 0
    /\ arg.primitive_group.dense.denseinfo.changeset[1] # 0
    /\ arg.primitive_group.dense.denseinfo.changeset[2] # 0
    /\ arg.primitive_group.dense.denseinfo.uid[1] # 0
    /\ arg.primitive_group.dense.denseinfo.uid[2] # 0
    /\ arg.primitive_group.dense.denseinfo.user_sid[1] # 0
    /\ arg.primitive_group.dense.denseinfo.user_sid[2] # 0

\* C10: the timestamp of dense node i is date_granularity / 1000 times the
\* prefix sum of the timestamp deltas up to i: the scale is applied once.
C10_TimestampScaledOnce ==
    (DenseDecided /\ res.kind = "ok") =>
        LET info == arg.primitive_group.dense.denseinfo
        IN  \A i \in 1..Len(res.results) :
                LET sum == I32Sum(info.timestamp, i)
                    scaled == I32Mul(TruncDiv(arg.date_granularity, 1000), sum.val)
                IN  /\ ~sum.overflow /\ ~scaled.overflow
                    /\ res.results[i].timestamp = scaled.val

----------------------------------------------------------------------------
(* SpecEntity: the decoders on groups that vary one part of an entity *)

\* the longest keys_vals array of the inputs
MaxKeysVals == 6

\* a dense group of n nodes with the flat key/value index array keys_vals
TaggedDense(n, keys_vals) ==
    LET g == DenseGroup([k \in 1..n |-> 1], [k \in 1..n |-> 1], [k \in 1..n |-> 1],
                        [k \in 1..n |-> 1], [k \in 1..n |-> 0])
    IN  [g EXCEPT !.dense.keys_vals = keys_vals]

\* the longest key and value index arrays of a way or relation
MaxTags == 2

\* key and value index arrays, not always of one length; index 3 names the
\* absent string and index 4 lies outside the table
TagColumns == SeqsUpTo({ 1, 2, 3, 4 }, MaxTags)

\* a group of two ways, the first with the given tag arrays
TaggedWays(keys, vals) ==
    [NoGroup EXCEPT !.ways = << [Way1 EXCEPT !.keys = keys, !.vals = vals], Way2 >>]

\* a group of one relation with the given tag arrays
TaggedRelations(keys, vals) ==
    [NoGroup EXCEPT !.relations = << [Relation1 EXCEPT !.keys = keys, !.vals = vals] >>]

\* user id delta columns of n nodes: small deltas of either sign, and columns
\* that start at the largest 32-bit value and do not grow
UidColumns(n) ==
    Columns({ -3, 0, 2 }, n)
    \cup (IF n = 0 THEN {}
          ELSE { << I32Max >> \o rest : rest \in Columns({ -3, 0 }, n - 1) })

\* a dense group with the given user id and user-name index columns
UserDense(uid, user_sid) ==
    LET n == Len(uid)
    IN  DenseGroup([k \in 1..n |-> 1], [k \in 1..n |-> 1], [k \in 1..n |-> 1], uid, user_sid)

\* a dense group of n untagged nodes with the given visibility column
VisibleDense(n, visible) ==
    [TaggedDense(n, <<>>) EXCEPT !.dense.denseinfo.visible = visible]

\* the longest refs, memids, types and roles_sid arrays of the inputs
MaxRefs == 3

\* a way with the given refs and user-name index, after the ways of before
RefWays(before, refs, user_sid) ==
    [NoGroup EXCEPT !.ways = before \o << [Way2 EXCEPT !.refs = refs, !.info.user_sid = user_sid] >>]

\* member types of t members: each position its own type
TypesOf(t) == [k \in 1..t |-> << "Node", "Way", "Relation" >>[((k - 1) % 3) + 1]]

\* a relation with the given member arrays, after the relations of before
MemberRelations(before, roles_sid, memids, t) ==
    [NoGroup EXCEPT !.relations = before \o << [Relation1 EXCEPT !.roles_sid = roles_sid, !.memids = memids, !.types = TypesOf(t)] >>]

\* a relation with the given user-name index
UserRelations(user_sid) ==
    [NoGroup EXCEPT !.relations = << [Relation1 EXCEPT !.info.user_sid = user_sid] >>]

\* info records of a way or relation: every field in two forms, the visible
\* field also not set
InfoRecords ==
    [version : { 1, 3 }, timestamp : { 0, 2000 }, changeset : { 4, -1 }, uid : { 6, 0 },
     user_sid : { 1, 2 }, visible : { None, Some(TRUE), Some(FALSE) }]

\* a way with the given info record, alone or after another way
InfoWays(info, after) ==
    [NoGroup EXCEPT !.ways = (IF after THEN << Way1 >> ELSE <<>>) \o << [Way2 EXCEPT !.info = info] >>]

\* a relation with the given info record, alone or after another relation
InfoRelations(info, after) ==
    [NoGroup EXCEPT !.relations = (IF after THEN << Relation1 >> ELSE <<>>) \o << [Relation1 EXCEPT !.id = 21, !.info = info] >>]

\* the columns of a dense group that run parallel to its id column
DenseColumns == { "lat", "lon", "uid", "changeset", "user_sid", "timestamp", "version" }

\* a dense group of n nodes in which one column lacks its last missing entries
ShortDense(n, column, missing) ==
    LET g == TaggedDense(n, <<>>)
        short(c) == SubSeq(c, 1, Len(c) - missing)
    IN  CASE column = "lat" -> [g EXCEPT !.dense.lat = short(@)]
          [] column = "lon" -> [g EXCEPT !.dense.lon = short(@)]
          [] column = "uid" -> [g EXCEPT !.dense.denseinfo.uid = short(@)]
          [] column = "changeset" -> [g EXCEPT !.dense.denseinfo.changeset = short(@)]
          [] column = "user_sid" -> [g EXCEPT !.dense.denseinfo.user_sid = short(@)]
          [] column = "timestamp" -> [g EXCEPT !.dense.denseinfo.timestamp = short(@)]
          [] column = "version" -> [g EXCEPT !.dense.denseinfo.version = short(@)]

\* the call of the group decoder on group g
EntityCall(g) == [primitive_group |-> g, date_granularity |-> 1000]

\* the groups the decoders are run on, one family for each part of an entity:
\* dense key/value arrays (index 3 names the absent string), tag arrays of ways
\* and relations, user id and user-name index columns (an accumulated index 3
\* names the absent string, 4 and more lie outside the table), visibility
\* columns shorter than, as long as and longer than the id column, refs and
\* user-name index of a way alone and after another way, the three member arrays
\* of a relation, not always of one length, and the user-name index of a relation
InitEntity ==
    /\ \/ \E n \in 0..MaxNodes, len \in 0..MaxKeysVals :
            \E keys_vals \in SeqsOfLen({ 0, 1, 2, 3 }, len) :
                arg = EntityCall(TaggedDense(n, keys_vals))
       \/ \E keys \in TagColumns, vals \in TagColumns :
            arg \in { EntityCall(TaggedWays(keys, vals)),
                      EntityCall(TaggedRelations(keys, vals)) }
       \/ \E n \in 0..MaxNodes :
            \E uid \in UidColumns(n), user_sid \in Columns({ 0, 1, 3 }, n) :
                arg = EntityCall(UserDense(uid, user_sid))
       \/ \E n \in 0..MaxNodes, len \in 0..(MaxNodes + 1) :
            \E visible \in SeqsOfLen(BOOLEAN, len) :
                arg = EntityCall(VisibleDense(n, visible))
       \/ \E before \in { <<>>, << Way1 >> }, len \in 0..MaxRefs, user_sid \in 0..4 :
            \E refs \in SeqsOfLen({ -2, 5 }, len) :
                arg = EntityCall(RefWays(before, refs, user_sid))
       \/ \E before \in { <<>>, << Relation1 >> }, r \in 0..MaxRefs, m \in 0..MaxRefs, t \in 0..MaxRefs :
            \E roles_sid \in SeqsOfLen({ 0, 1, 3 }, r), memids \in SeqsOfLen({ -2, 5 }, m) :
                arg = EntityCall(MemberRelations(before, roles_sid, memids, t))
       \/ \E user_sid \in 0..4 :
            arg = EntityCall(UserRelations(user_sid))
       \/ \E g \in OverflowDense : arg = EntityCall(g)
       \/ \E n \in 1..MaxNodes, column \in DenseColumns :
            \E missing \in 1..n : arg = EntityCall(ShortDense(n, column, missing))
       \/ \E info \in InfoRecords, after \in BOOLEAN, date_granularity \in { 1000, 2000 } :
            \E g \in { InfoWays(info, after), InfoRelations(info, after) } :
                arg = [primitive_group |-> g, date_granularity |-> date_granularity]
    /\ res = Pending
    /\ overflow_checks \in BOOLEAN /\ stream = <<>> /\ frames = [list |-> <<>>, cut |-> 0] /\ pos = 0
    /\ _buffer = <<>> /\ _sorted_assumption = FALSE
    /\ ret = [kind |-> "init"] /\ out = <<>> /\ nones = 0
    /\ NoXml

SpecEntity == InitEntity /\ [][DecodeGroup]_vars

----------------------------------------------------------------------------
(* Properties of tags *)

RECURSIVE IsKeyPosition(_, _)
\* position p of the flat array kv is read as a key (or terminator): the first
\* position, the one after a terminator, and the one after a key and its value
IsKeyPosition(kv, p) ==
    \/ p = 1
    \/ p >= 2 /\ kv[p - 1] = 0 /\ IsKeyPosition(kv, p - 1)
    \/ p >= 3 /\ kv[p - 2] # 0 /\ IsKeyPosition(kv, p - 2)

\* the positions of the terminators of kv
Terminators(kv) == { p \in 1..Len(kv) : kv[p] = 0 /\ IsKeyPosition(kv, p) }

\* the position of the i-th terminator of kv (0 for i = 0)
Terminator(kv, i) ==
    IF i = 0 THEN 0
    ELSE CHOOSE p \in Terminators(kv) :
            Cardinality({ q \in Terminators(kv) : q <= p }) = i

\* the (key index, value index) pairs of kv between its (i-1)-th and its i-th
\* terminator, in order
PairsOfNode(kv, i) ==
    LET from == Terminator(kv, i - 1)
        to == Terminator(kv, i)
        pair(p) == << kv[p], kv[p + 1] >>
        keys == { p \in (from + 1)..(to - 1) : IsKeyPosition(kv, p) }
        nth(j) == CHOOSE p \in keys : Cardinality({ q \in keys : q <= p }) = j
    IN  [j \in 1..Cardinality(keys) |-> pair(nth(j))]

\* index k names a present string of the table
Present(k) == InBounds(GroupStrings, k) /\ At(GroupStrings, k).some

\* the pairs of index pairs whose two indexes name present strings, as strings
PresentPairs(pairs) ==
    LET kept == SelectSeq(pairs, LAMBDA kv : Present(kv[1]) /\ Present(kv[2]))
    IN  [j \in 1..Len(kept) |->
            << At(GroupStrings, kept[j][1]).val, At(GroupStrings, kept[j][2]).val >>]

\* C11: in a dense group with a non-empty key/value array holding a terminator
\* per node, decoding returns, and node i carries the pairs lying between the
\* (i-1)-th and the i-th terminator, in order; a 0 in key position is never part
\* of a pair.
C11_DenseTagsAreSequential ==
    LET dense == arg.primitive_group.dense
        kv == dense.keys_vals
        N == Len(dense.id)
    IN  (DenseDecided /\ kv # <<>>) =>
            /\ Cardinality(Terminators(kv)) >= N => res.kind = "ok"
            /\ res.kind = "ok" =>
                  /\ Len(res.results) = N
                  /\ Cardinality(Terminators(kv)) >= N
                  /\ \A i \in 1..N :
                        /\ res.results[i].tags.some
                        /\ res.results[i].tags.val = PresentPairs(PairsOfNode(kv, i))

\* the array 1,2,0,2,1,0 over two nodes: (a, b) for the first and (b, a) for the
\* second
C11_Witness ==
    /\ DenseDecided
    /\ arg.primitive_group.dense.keys_vals = << 1, 2, 0, 2, 1, 0 >>
    /\ Len(arg.primitive_group.dense.id) = 2
    /\ res.kind = "ok"
    /\ res.results[1].tags = Some(<< << << 97 >>, << 98 >> >> >>)
    /\ res.results[2].tags = Some(<< << << 98 >>, << 97 >> >> >>)

\* the group of the state holds ways (relations) only and has been decoded
WaysDecided ==
    /\ Decided
    /\ arg.primitive_group.nodes = <<>> /\ ~arg.primitive_group.has_dense
    /\ arg.primitive_group.ways # <<>>
RelationsDecided ==
    /\ Decided
    /\ arg.primitive_group.nodes = <<>> /\ ~arg.primitive_group.has_dense
    /\ arg.primitive_group.ways = <<>> /\ arg.primitive_group.relations # <<>>

\* keys and vals zipped pairwise
Zipped(keys, vals) ==
    [j \in 1..(IF Len(keys) <= Len(vals) THEN Len(keys) ELSE Len(vals)) |->
        << keys[j], vals[j] >>]

\* every index of column lies in the string table
InTable(column) == \A j \in 1..Len(column) : InBounds(GroupStrings, column[j])

\* entity e was decoded from element x (with tag arrays keys and vals): its tags
\* are the zipped pairs with both sides present, in order
TagsResolved(e, x) == e.tags = PresentPairs(Zipped(x.keys, x.vals))

\* C12: the tags of an emitted dense node, way or relation are exactly the pairs
\* whose key index and value index both name a present string, in their order;
\* a pair with an absent side is dropped and the entity is emitted all the same
\* (a group whose tag indexes lie in the table and whose user names are present
\* is always decoded).
C12_AbsentTagsAreDropped ==
    LET g == arg.primitive_group
        all(xs) == \A k \in 1..Len(xs) : /\ InTable(xs[k].keys) /\ InTable(xs[k].vals)
                                          /\ Present(xs[k].info.user_sid)
        each(xs) == /\ Len(res.results) = Len(xs)
                    /\ \A k \in 1..Len(xs) : TagsResolved(res.results[k], xs[k])
    IN  /\ WaysDecided => /\ all(g.ways) => res.kind = "ok"
                          /\ res.kind = "ok" => each(g.ways)
        /\ RelationsDecided => /\ all(g.relations) => res.kind = "ok"
                               /\ res.kind = "ok" => each(g.relations)
        /\ (DenseDecided /\ g.dense.keys_vals # <<>> /\ res.kind = "ok") =>
               /\ Len(res.results) = Len(g.dense.id)
               /\ \A i \in 1..Len(g.dense.id) :
                     res.results[i].tags
                         = Some(PresentPairs(PairsOfNode(g.dense.keys_vals, i)))

\* a way with the pairs (absent, a) and (b, a): the first is dropped, the second
\* kept, and the way and the way after it are emitted
C12_Witness ==
    /\ WaysDecided
    /\ arg.primitive_group.ways[1].keys = << 3, 2 >>
    /\ arg.primitive_group.ways[1].vals = << 1, 1 >>
    /\ res.kind = "ok"
    /\ Len(res.results) = 2
    /\ res.results[1].tags = << << << 98 >>, << 97 >> >> >>

----------------------------------------------------------------------------
(* SpecTable: decode_block_to_objs on blocks that vary the string table *)

\* the longest raw string table of the inputs
MaxStrings == 3

\* byte strings that are text: "", "a", "e acute"
Text == { <<>>, << 97 >>, << 195, 169 >> }
\* byte strings that are not: a stray 0xff, a lead byte with no continuation, an
\* overlong three-byte form, a stray continuation byte
NotText == { << 255 >>, << 195 >>, << 224, 128, 128 >>, << 128 >> }

TableInputs == SeqsUpTo(Text \cup NotText, MaxStrings)

\* a way of user-name index 0 whose k-th tag has index k - 1 as key and as value:
\* one reference to every entry of a table of n strings
ProbeWay(n) ==
    [id |-> 1, keys |-> [k \in 1..n |-> k - 1], vals |-> [k \in 1..n |-> k - 1],
     refs |-> <<>>, info |-> InfoRec(0, 0)]

\* the block with raw string table raw and the probe way as its only entity
BlockOfTable(raw) ==
    [BlockOfGroups(<< [NoGroup EXCEPT !.ways = << ProbeWay(Len(raw)) >>] >>)
        EXCEPT !.stringtable = raw]

InitTable ==
    /\ arg \in TableInputs
    /\ res = Pending
    /\ overflow_checks = TRUE /\ stream = <<>> /\ frames = [list |-> <<>>, cut |-> 0] /\ pos = 0
    /\ _buffer = <<>> /\ _sorted_assumption = FALSE
    /\ ret = [kind |-> "init"] /\ out = <<>> /\ nones = 0
    /\ NoXml

\* decode_block_to_objs on the block; stringtable is the table it builds on the way
DecodeTable ==
    /\ res = Pending
    /\ res' = [kind |-> "done",
               stringtable |-> ResolveStringTable(arg),
               block |-> decode_block_to_objs(BlockOfTable(arg))]
    /\ UNCHANGED <<overflow_checks, stream, frames, pos, _buffer, _sorted_assumption, ret, out, nones, arg, xml>>

SpecTable == InitTable /\ [][DecodeTable]_vars

----------------------------------------------------------------------------
(* Properties of the string table *)

\* C13: whatever the raw table of the block, index 0 of the resolved table is
\* present and is the empty string, and an entity that refers to index 0 (here as
\* its user name) is decoded with the empty string.
C13_IndexZeroIsEmptyString ==
    Decided =>
        /\ InBounds(res.stringtable, 0)
        /\ At(res.stringtable, 0).some
        /\ At(res.stringtable, 0).val = <<>>
        /\ res.block.kind = "ok"
        /\ res.block.results[1].user = <<>>

\* the texts of the entries of raw that are text, each paired with itself, in
\* table order
OwnTexts(raw) ==
    LET kept == SelectSeq(raw, LAMBDA chars : chars \in Text)
    IN  [j \in 1..Len(kept) |-> << kept[j], kept[j] >>]

\* C14: the resolved table is as long as the raw table, entry i is the text of
\* raw string i when that is text and absent otherwise; a bad string fails
\* nothing by itself: when the user name (index 0) is text the block is decoded,
\* and the references to the other indexes give each its own string.
C14_BadStringsStayInPlace ==
    Decided =>
        /\ Len(res.stringtable) = Len(arg)
        /\ \A i \in 1..Len(arg) :
              IF arg[i] \in Text
              THEN res.stringtable[i].some /\ res.stringtable[i].val = arg[i]
              ELSE ~res.stringtable[i].some
        /\ (arg # <<>> /\ arg[1] \in Text) =>
              /\ res.block.kind = "ok"
              /\ res.block.results[1].tags = OwnTexts(arg)

\* a bad string between two texts: index 0 and index 2 keep their strings
C14_Witness ==
    /\ Decided
    /\ arg = << <<>>, << 255 >>, << 195, 169 >> >>
    /\ res.block.kind = "ok"
    /\ res.block.results[1].tags
         = << << <<>>, <<>> >>, << << 195, 169 >>, << 195, 169 >> >> >>

----------------------------------------------------------------------------
(* Properties of entity metadata, references and members *)

\* v is a valid user id: positive 32-bit range
ValidUid(v) == v >= 0 /\ v < I32Max

\* C15: a dense group in which some accumulated user id is negative, or is
\* 2^31-1 or more, is answered with a decode error: no abort, and no node with
\* the id wrapped to an unsigned value.
C15_UidOutOfRangeIsDecodeError ==
    LET uid == arg.primitive_group.dense.denseinfo.uid
    IN  (DenseDecided /\ \E i \in 1..Len(uid) :
                             I32Sum(uid, i).overflow \/ ~ValidUid(PrefixSum(uid, i))) =>
            res.kind = "DecodeError"

\* index sid lies in the string table and its entry is absent
Absent(sid) == InBounds(GroupStrings, sid) /\ ~At(GroupStrings, sid).some

\* C16: a group in which the user-name index of a way's or relation's info
\* record, or the accumulated user-name index of a dense node, names an absent
\* string is answered with a decode error, not with an abort.
C16_AbsentUserIsDecodeError ==
    LET g == arg.primitive_group
        sids == g.dense.denseinfo.user_sid
    IN  /\ (WaysDecided /\ \E k \in 1..Len(g.ways) : Absent(g.ways[k].info.user_sid)) =>
               res.kind = "DecodeError"
        /\ (RelationsDecided
            /\ \E k \in 1..Len(g.relations) : Absent(g.relations[k].info.user_sid)) =>
               res.kind = "DecodeError"
        /\ (DenseDecided /\ \E i \in 1..Len(sids) : Absent(PrefixSum(sids, i))) =>
               res.kind = "DecodeError"

\* the absolute values of the delta-coded column refs: first absolute, the
\* others cumulative
Absolutes(refs) == [j \in 1..Len(refs) |-> PrefixSum(refs, j)]

\* the number of positions present in the three member arrays of relation r
MemberCount(r) ==
    LET shortest(a, b) == IF a <= b THEN a ELSE b
    IN  shortest(Len(r.types), shortest(Len(r.memids), Len(r.roles_sid)))

\* C17: the node references of each way of a group are the prefix sums of its
\* own refs (none for empty refs), whatever way precedes it; the member ids of
\* each relation are the prefix sums of its own memids (seen on the relations
\* that keep all their members); a group of ways whose user names are present
\* is always decoded.
C17_RefsArePrefixSums ==
    LET g == arg.primitive_group
    IN  /\ WaysDecided =>
              /\ (\A k \in 1..Len(g.ways) : Present(g.ways[k].info.user_sid)
                                            /\ InTable(g.ways[k].keys)
                                            /\ InTable(g.ways[k].vals)) => res.kind = "ok"
              /\ res.kind = "ok" =>
                     /\ Len(res.results) = Len(g.ways)
                     /\ \A k \in 1..Len(g.ways) :
                           res.results[k].nodes = Absolutes(g.ways[k].refs)
        /\ (RelationsDecided /\ res.kind = "ok") =>
              /\ Len(res.results) = Len(g.relations)
              /\ \A k \in 1..Len(g.relations) :
                    LET r == g.relations[k]
                        members == res.results[k].members
                    IN  (\A j \in 1..MemberCount(r) : Present(r.roles_sid[j])) =>
                            /\ Len(members) = MemberCount(r)
                            /\ \A j \in 1..MemberCount(r) :
                                  members[j][2] = PrefixSum(r.memids, j)

\* a way with refs 5, -2, 5 after a way with refs 5, 3, -1: the second way's
\* references start again from its own first reference
C17_Witness ==
    /\ WaysDecided
    /\ res.kind = "ok"
    /\ Len(arg.primitive_group.ways) = 2
    /\ arg.primitive_group.ways[2].refs = << 5, -2, 5 >>
    /\ res.results[1].nodes = << 5, 8, 7 >>
    /\ res.results[2].nodes = << 5, 3, 8 >>

\* the members of relation r: for each position present in its three arrays
\* whose role is a present string, in order, the type, the absolute member id
\* and the role
MembersOf(r) ==
    LET kept == SelectSeq([j \in 1..MemberCount(r) |-> j],
                          LAMBDA j : Present(r.roles_sid[j]))
    IN  [i \in 1..Len(kept) |->
            << r.types[kept[i]], PrefixSum(r.memids, kept[i]),
               At(GroupStrings, r.roles_sid[kept[i]]).val >>]

\* C18: the member list of every decoded relation holds, in order, the triples
\* (type, member id, role) of the positions present in all three arrays whose
\* role is a present string; a member of absent role is left out and the others
\* keep their own type and id; a group of relations whose indexes lie in the
\* table and whose user names are present is always decoded.
C18_MembersAreZipped ==
    LET g == arg.primitive_group
    IN  RelationsDecided =>
            /\ (\A k \in 1..Len(g.relations) :
                     /\ InTable(g.relations[k].roles_sid)
                     /\ InTable(g.relations[k].keys) /\ InTable(g.relations[k].vals)
                     /\ Present(g.relations[k].info.user_sid)) => res.kind = "ok"
            /\ res.kind = "ok" =>
                  /\ AllOfType(res.results, "Relation", Len(g.relations))
                  /\ \A k \in 1..Len(g.relations) :
                        res.results[k].members = MembersOf(g.relations[k])

\* three members, the second of absent role: the first and the third are kept
\* with their own type and id
C18_Witness ==
    /\ RelationsDecided
    /\ res.kind = "ok"
    /\ Len(arg.primitive_group.relations) = 1
    /\ arg.primitive_group.relations[1].roles_sid = << 1, 3, 0 >>
    /\ arg.primitive_group.relations[1].memids = << 5, -2, 5 >>
    /\ Len(arg.primitive_group.relations[1].types) = 3
    /\ res.results[1].members = << << "Node", 5, << 97 >> >>, << "Relation", 8, <<>> >> >>

\* C19: a dense node whose index has no entry in the visibility column (the
\* column is absent or too short) is emitted all the same and is not deleted;
\* a node with an entry is deleted exactly when the entry is false.
C19_MissingVisibleIsVisible ==
    LET dense == arg.primitive_group.dense
        visible == dense.denseinfo.visible
    IN  DenseDecided =>
            /\ WellFormedDense(dense) => res.kind = "ok"
            /\ res.kind = "ok" =>
                  /\ Len(res.results) = Len(dense.id)
                  /\ \A i \in 1..Len(dense.id) :
                        res.results[i].deleted = IF i <= Len(visible) THEN ~visible[i]
                                                 ELSE FALSE

\* two nodes and one visibility entry, false: the first node is deleted, the
\* second is emitted and is not
C19_Witness ==
    /\ DenseDecided
    /\ res.kind = "ok"
    /\ arg.primitive_group.dense.denseinfo.visible = << FALSE >>
    /\ Len(res.results) = 2
    /\ res.results[1].deleted
    /\ ~res.results[2].deleted

----------------------------------------------------------------------------
(* Properties of the sorted-assumption flag *)

RECURSIVE Replay(_, _, _, _, _)
\* the results of n calls of next() on a reader at offset p with _buffer =
\* buffer, appended to acc; a panic ends the calls.  No flag takes part.
Replay(s, p, buffer, n, acc) ==
    IF n = 0 THEN acc
    ELSE Let(next(s, p, buffer), LAMBDA r :
             IF r.kind = "panic" THEN Append(acc, [kind |-> "panic"])
             ELSE IF r.kind = "None"
             THEN Replay(s, r.pos, r.buffer, n - 1, Append(acc, [kind |-> "None"]))
             ELSE Replay(s, r.pos, r.buffer, n - 1,
                         Append(acc, [kind |-> "Some", val |-> r.val])))

\* the calls of next() made so far
Calls == Len(out) + nones + (IF ret.kind = "panic" THEN 1 ELSE 0)

\* the results of next() so far are those of the same number of calls on a
\* reader of the same stream on which the flag is never touched
SameAsUntouched ==
    Let(Replay(stream, 0, <<>>, Calls, <<>>), LAMBDA results :
    Let(SelectSeq(results, LAMBDA r : r.kind = "Some"), LAMBDA entities :
        /\ Len(results) = Calls
        /\ Len(entities) = Len(out)
        /\ \A i \in 1..Len(out) : SameEntity(entities[i].val, out[i])
        /\ Calls > 0 => results[Calls].kind = ret.kind))

\* C20: the flag is false on a new reader; after set_sorted_assumption(b)
\* get_sorted_assumption returns b, and the call changes neither the buffer nor
\* the stream position nor anything next() has returned; next() never changes
\* the flag; and the results of next() are those of a reader of the same stream
\* whose flag is never touched, whatever the flag's value and whenever it is set.
C20_FlagIsAdvisory ==
    /\ ~get_sorted_assumption
    /\ [][/\ \A b \in BOOLEAN :
                set_sorted_assumption(b) =>
                    /\ get_sorted_assumption' = b
                    /\ _buffer' = _buffer /\ pos' = pos /\ stream' = stream
                    /\ out' = out /\ ret' = ret
          /\ NextCall => get_sorted_assumption' = get_sorted_assumption
          /\ (_sorted_assumption' # _sorted_assumption) => (_buffer' = _buffer /\ pos' = pos)
         ]_vars
    /\ []SameAsUntouched

\* the flag was set while entities of a block were waiting in the buffer, and
\* entities had been returned before
C20_Witness ==
    /\ get_sorted_assumption
    /\ _buffer # <<>>
    /\ out # <<>>
    /\ pos > 0

----------------------------------------------------------------------------
(* Changeset dump files (src/src/changesets.rs).                            *)
(*                                                                          *)
(* A document is the sequence of events quick_xml's read_event_into yields  *)
(* for it, in document order; past the last event every read yields Eof.    *)
(* An End event stands for an end tag as written: the reader yields it as   *)
(* an error when it does not close the innermost open element.  An Unclosed *)
(* event stands for markup the input ends inside of.  Names are local       *)
(* names.  A string is a sequence of one-character strings.  A Result is an *)
(* outcome of kind "Err" or a value.                                        *)

Err(why) == [kind |-> "Err", why |-> why]

\* an attribute as Attributes::next yields it; well = FALSE is an item that
\* the iterator yields as Err (the `attr?` of the loops returns it)
Attr(key, value) == [key |-> key, value |-> value, well |-> TRUE]

StartEvent(name, attributes) == [event |-> "Start", name |-> name, attributes |-> attributes]
EmptyEvent(name, attributes) == [event |-> "Empty", name |-> name, attributes |-> attributes]
EndEvent(name) == [event |-> "End", name |-> name, attributes |-> <<>>]
TextEvent == [event |-> "Text", name |-> "", attributes |-> <<>>]
EofEvent == [event |-> "Eof", name |-> "", attributes |-> <<>>]
UnclosedEvent == [event |-> "Unclosed", name |-> "", attributes |-> <<>>]
\* a read that fails (name holds the reason)
ErrEvent(why) == [event |-> "Err", name |-> why, attributes |-> <<>>]

RECURSIVE OpenElements(_, _)
\* the names of the elements open after the first n events, innermost last:
\* a start tag opens its element, an end tag closes the innermost one (also
\* when it is reported as a mismatch)
OpenElements(evs, n) ==
    IF n = 0 THEN <<>>
    ELSE Let(OpenElements(evs, n - 1), LAMBDA open :
             CASE evs[n].event = "Start" -> Append(open, evs[n].name)
               [] evs[n].event = "End" /\ open # <<>> -> SubSeq(open, 1, Len(open) - 1)
               [] OTHER -> open)

\* Reader::read_event_into: the event after n consumed ones, Eof at the end;
\* an error for an end tag that does not close the innermost open element and
\* for markup that the input ends inside of
read_event_into(evs, n) ==
    IF n >= Len(evs) THEN EofEvent
    ELSE Let(evs[n + 1], LAMBDA e :
         IF e.event = "Unclosed" THEN ErrEvent("syntax")
         ELSE IF e.event # "End" THEN e
         ELSE Let(OpenElements(evs, n), LAMBDA open :
                  IF open = <<>> \/ open[Len(open)] # e.name THEN ErrEvent("ill-formed")
                  ELSE e))

\* the reader position after one more read
Consumed(evs, n) == IF n < Len(evs) THEN n + 1 ELSE n

\* the printable ASCII characters by their codes: 32 to 95, and 97 to 126
Ascii ==
    << " ", "!", "\"", "#", "$", "%", "&", "'", "(", ")", "*", "+", ",", "-", ".", "/",
       "0", "1", "2", "3", "4", "5", "6", "7", "8", "9", ":", ";", "<", "=", ">", "?",
       "@", "A", "B", "C", "D", "E", "F", "G", "H", "I", "J", "K", "L", "M", "N", "O",
       "P", "Q", "R", "S", "T", "U", "V", "W", "X", "Y", "Z", "[", "\\", "]", "^", "_" >>
AsciiLower ==
    << "a", "b", "c", "d", "e", "f", "g", "h", "i", "j", "k", "l", "m", "n", "o",
       "p", "q", "r", "s", "t", "u", "v", "w", "x", "y", "z", "{", "|", "}", "~" >>

\* char::from_u32 for a valid code: the character; a character that is not in
\* the tables is written by its code, as in "U+233"
CharOf(code) ==
    IF code \in 32..95 THEN Ascii[code - 31]
    ELSE IF code \in 97..126 THEN AsciiLower[code - 96]
    ELSE "U+" \o ToString(code)

\* the value of a hexadecimal digit, 16 for any other character
HexValue(c) ==
    CASE c \in { "0", "1", "2", "3", "4", "5", "6", "7", "8", "9" } ->
             (CHOOSE k \in 17..26 : Ascii[k] = c) - 17
      [] c \in { "a", "b", "c", "d", "e", "f" } -> (CHOOSE k \in 1..6 : AsciiLower[k] = c) + 9
      [] c \in { "A", "B", "C", "D", "E", "F" } -> (CHOOSE k \in 34..39 : Ascii[k] = c) - 24
      [] OTHER -> 16

RECURSIVE NumberValue(_, _, _, _)
\* the digits from the k-th on in the given base, after acc; a value beyond
\* the last code point, 0x10FFFF, stays beyond it (no character either way)
NumberValue(digits, base, k, acc) ==
    IF k > Len(digits) THEN acc
    ELSE IF acc > 1114111 THEN acc
    ELSE NumberValue(digits, base, k + 1, base * acc + HexValue(digits[k]))

\* the character a reference &name; stands for: one of the five predefined
\* entities, or a character by its decimal (#n) or hexadecimal (#xn) code
ResolveEntity(name) ==
    LET Char(c) == [kind |-> "Ok", val |-> c]
        hex == Len(name) >= 2 /\ name[2] = "x"
        digits == SubSeq(name, IF hex THEN 3 ELSE 2, Len(name))
        base == IF hex THEN 16 ELSE 10
    IN  CASE name = << "l", "t" >> -> Char("<")
          [] name = << "g", "t" >> -> Char(">")
          [] name = << "a", "m", "p" >> -> Char("&")
          [] name = << "a", "p", "o", "s" >> -> Char("'")
          [] name = << "q", "u", "o", "t" >> -> Char("\"")
          [] name # <<>> /\ name[1] = "#" ->
               IF \E k \in 1..Len(digits) : HexValue(digits[k]) >= base
               THEN Err("unescape")
               ELSE Let(NumberValue(digits, base, 1, 0), LAMBDA code :
                    IF code = 0 \/ code \in 55296..57343 \/ code > 1114111
                    THEN Err("unescape")
                    ELSE Char(CharOf(code)))
          [] OTHER -> Err("unescape")

RECURSIVE Unescape(_, _, _)
\* the value from its i-th character on, with every reference resolved, after acc
Unescape(value, i, acc) ==
    IF i > Len(value) THEN [kind |-> "Ok", val |-> acc]
    ELSE IF value[i] # "&"
    THEN Let(Append(acc, value[i]), LAMBDA acc2 : Unescape(value, i + 1, acc2))
    ELSE LET marks == { j \in (i + 1)..Len(value) : value[j] \in { "&", ";" } }
             end == IF marks = {} THEN 0 ELSE CHOOSE j \in marks : \A k \in marks : j <= k
         IN  IF end = 0 \/ value[end] # ";" THEN Err("unescape")
             ELSE Let(ResolveEntity(SubSeq(value, i + 1, end - 1)), LAMBDA c :
                      IF c.kind = "Err" THEN c
                      ELSE Let(Append(acc, c.val),
                               LAMBDA acc2 : Unescape(value, end + 1, acc2)))

\* Attribute::decode_and_unescape_value: the value with its entity references
\* resolved; an ampersand that starts no reference is an error
decode_and_unescape_value(value) == Unescape(value, 1, <<>>)

DigitValue == [c \in { "0", "1", "2", "3", "4", "5", "6", "7", "8", "9" } |-> 
                 CASE c = "0" -> 0 [] c = "1" -> 1 [] c = "2" -> 2 [] c = "3" -> 3 [] c = "4" -> 4
                   [] c = "5" -> 5 [] c = "6" -> 6 [] c = "7" -> 7 [] c = "8" -> 8 [] c = "9" -> 9]

RECURSIVE DecimalValue(_, _, _)
DecimalValue(digits, k, acc) ==
    IF k > Len(digits) THEN acc ELSE DecimalValue(digits, k + 1, 10 * acc + DigitValue[digits[k]])

\* str::parse for an unsigned integer: an optional plus sign, then one or more
\* decimal digits (the strings of the model are too short to overflow)
ParseUnsigned(text) ==
    LET digits == IF text # <<>> /\ text[1] = "+" THEN Tail(text) ELSE text
    IN  IF digits = <<>> \/ \E i \in 1..Len(digits) : digits[i] \notin DOMAIN DigitValue
        THEN Err("parse")
        ELSE [kind |-> "Ok", val |-> DecimalValue(digits, 1, 0)]

\* the attribute loop of a changeset start in next_tag: every id attribute
\* sets curr_id; the first error ends the call with what was set before it
RECURSIVE TagReaderIdLoop(_, _, _)
TagReaderIdLoop(attributes, k, id) ==
    IF k > Len(attributes) THEN [kind |-> "Ok", curr_id |-> id]
    ELSE LET attr == attributes[k] IN
         IF ~attr.well THEN [kind |-> "Err", why |-> "attribute", curr_id |-> id]
         ELSE IF attr.key # "id" THEN TagReaderIdLoop(attributes, k + 1, id)
         ELSE LET value == decode_and_unescape_value(attr.value) IN
              IF value.kind = "Err" THEN [kind |-> "Err", why |-> value.why, curr_id |-> id]
              ELSE LET parsed == ParseUnsigned(value.val) IN
                   IF parsed.kind = "Err" THEN [kind |-> "Err", why |-> parsed.why, curr_id |-> id]
                   ELSE TagReaderIdLoop(attributes, k + 1, Some(parsed.val))

\* the attribute loop of a tag element: the last k and the last v attribute
RECURSIVE TagAttributes(_, _, _, _)
TagAttributes(attributes, n, k, v) ==
    IF n > Len(attributes)
    THEN IF ~k.some THEN Err("No k for tag")
         ELSE IF ~v.some THEN Err("No v for tag")
         ELSE [kind |-> "Ok", val |-> << k.val, v.val >>]
    ELSE LET attr == attributes[n] IN
         IF ~attr.well THEN Err("attribute")
         ELSE IF attr.key \notin { "k", "v" } THEN TagAttributes(attributes, n + 1, k, v)
         ELSE LET value == decode_and_unescape_value(attr.value) IN
              IF value.kind = "Err" THEN value
              ELSE IF attr.key = "k" THEN TagAttributes(attributes, n + 1, Some(value.val), v)
              ELSE TagAttributes(attributes, n + 1, k, Some(value.val))

\* ChangesetTagReader::next_tag from reader position n with fields id, tgs:
\* the outcome and the reader's fields after the call
RECURSIVE next_tag(_, _, _, _)
next_tag(evs, n, id, tgs) ==
    LET e == read_event_into(evs, n)
        m == Consumed(evs, n)
    IN  CASE e.event = "Err" ->
               [ret |-> Err(e.name), reader |-> m, curr_id |-> id, tags |-> tgs]
          [] e.event = "Eof" ->
               [ret |-> [kind |-> "None"], reader |-> m, curr_id |-> id, tags |-> tgs]
          [] e.event = "End" /\ e.name = "changeset" ->
               IF ~id.some
               THEN [ret |-> Err("Should be an id set"), reader |-> m, curr_id |-> id, tags |-> tgs]
               ELSE [ret |-> [kind |-> "Some", val |-> << id.val, tgs >>],
                     reader |-> m, curr_id |-> id, tags |-> <<>>]
          [] e.event = "End" /\ e.name # "changeset" -> next_tag(evs, m, id, tgs)
          [] e.event = "Start" /\ e.name = "changeset" ->
               LET set == TagReaderIdLoop(e.attributes, 1, id) IN
               IF set.kind = "Err"
               THEN [ret |-> Err(set.why), reader |-> m, curr_id |-> set.curr_id, tags |-> tgs]
               ELSE next_tag(evs, m, set.curr_id, <<>>)
          [] e.event \in { "Start", "Empty" } /\ e.name = "tag" ->
               LET kv == TagAttributes(e.attributes, 1, None, None) IN
               IF kv.kind = "Err"
               THEN [ret |-> kv, reader |-> m, curr_id |-> id, tags |-> tgs]
               ELSE next_tag(evs, m, id, Append(tgs, kv.val))
          [] OTHER -> next_tag(evs, m, id, tgs)

----------------------------------------------------------------------------
(* Documents of the changeset readers *)

\* top-level elements of a document, besides its root element
MaxElements == 3
\* events missing at the end of a document that was cut short
MaxCut == 2

\* an element in open/close form, as its events
Element(name, attributes, children) ==
    << StartEvent(name, attributes) >> \o children \o << EndEvent(name) >>

\* a self-closing tag element
TagElement(k, v) == << EmptyEvent("tag", << Attr("k", k), Attr("v", v) >>) >>

Id(text) == << Attr("id", text) >>

\* the attributes of a changeset that the Changeset builder cannot do without,
\* except id
Meta ==
    << Attr("created_at", << "d" >>), Attr("open", << "t", "r", "u", "e" >>),
       Attr("num_changes", << "7" >>), Attr("comments_count", << "0" >>) >>

\* the attributes a changeset may carry besides
Extra ==
    << Attr("closed_at", << "e" >>), Attr("uid", << "-", "1" >>), Attr("user", << "u" >>) >>

\* the elements documents are made of: changesets with one tag, with two tags
\* around text (the second in open/close form), without tags in both forms,
\* without id, with an id that is no number, with a tag that lacks its v and
\* with a discussion before two tags of one key; a tag and another element
\* outside of every changeset; a changeset whose id and tag are written with
\* entity references (id="&#00000055;", k="a&amp;b", v="&lt;"), one whose tag holds
\* an ampersand that starts no reference, a changeset start tag that is never
\* closed and an end tag that closes nothing
Elements ==
    { Element("changeset", Id(<< "1" >>) \o Meta, TagElement(<< "a" >>, << "b" >>)),
      Element("changeset", Meta \o Id(<< "2" >>) \o Extra,
              TagElement(<< "c" >>, << "d" >>) \o << TextEvent >>
              \o Element("tag", << Attr("v", << "e" >>), Attr("k", << "a" >>) >>, <<>>)),
      Element("changeset", Id(<< "3" >>) \o Meta, <<>>),
      << EmptyEvent("changeset", Id(<< "4" >>) \o Meta) >>,
      Element("changeset", Meta, TagElement(<< "c" >>, << "d" >>)),
      Element("changeset", Id(<< "x" >>) \o Meta, TagElement(<< "c" >>, << "d" >>)),
      Element("changeset", Id(<< "5" >>) \o Meta,
              << EmptyEvent("tag", << Attr("k", << "a" >>) >>) >> \o TagElement(<< "c" >>, << "d" >>)),
      Element("changeset", Id(<< "6" >>) \o Meta,
              Element("discussion", <<>>, << EmptyEvent("comment", <<>>) >>)
              \o TagElement(<< "a" >>, << "b" >>) \o TagElement(<< "a" >>, << "d" >>)),
      TagElement(<< "e" >>, << "f" >>),
      << EmptyEvent("bound", <<>>) >>,
      Element("changeset", Id(<< "&", "#", "0", "0", "0", "0", "0", "0", "5", "5", ";" >>) \o Meta,
              TagElement(<< "a", "&", "a", "m", "p", ";", "b" >>, << "&", "l", "t", ";" >>)),
      Element("changeset", Id(<< "8" >>) \o Meta, TagElement(<< "a", "&", "b" >>, << "c" >>)),
      << StartEvent("changeset", Id(<< "9" >>) \o Meta) >>,
      << EndEvent("changeset") >> }

\* the events of the document with the given elements under its root, without
\* its last cut events; a torn document ends inside the markup that follows
Document(elements, cut, torn) ==
    LET whole == Element("osm", <<>>, Concat(elements))
    IN  SubSeq(whole, 1, Len(whole) - cut) \o (IF torn THEN << UnclosedEvent >> ELSE <<>>)

\* a reader constructed on a document, before its first call
InitXml ==
    /\ \E n \in 0..MaxElements, cut \in 0..MaxCut, torn \in BOOLEAN :
         \E elements \in SeqsOfLen(Elements, n) : events = Document(elements, cut, torn)
    /\ reader = 0 /\ curr_id = None /\ curr_tags = <<>> /\ pc = "idle"
    /\ ret = [kind |-> "init"] /\ out = <<>> /\ nones = 0
    /\ overflow_checks = TRUE /\ stream = <<>> /\ frames = [list |-> <<>>, cut |-> 0] /\ pos = 0
    /\ _buffer = <<>> /\ _sorted_assumption = FALSE
    /\ arg = 0 /\ res = 0

\* a call of ChangesetTagReader::next_tag (Iterator::next is its transpose)
NextTag ==
    /\ nones < MaxNone
    /\ \E r \in { next_tag(events, reader, curr_id, curr_tags) } :
         /\ ret' = r.ret
         /\ reader' = r.reader
         /\ curr_id' = r.curr_id
         /\ curr_tags' = r.tags
         /\ out' = IF r.ret.kind = "Some" THEN Append(out, r.ret.val) ELSE out
         /\ nones' = IF r.ret.kind = "None" THEN nones + 1 ELSE nones
    /\ UNCHANGED <<overflow_checks, stream, frames, pos, _buffer, _sorted_assumption, arg, res, events, pc>>

SpecTags == InitXml /\ [][NextTag]_vars

----------------------------------------------------------------------------
(* Properties of the changeset tag reader *)

\* the value of the last attribute called key, if there is one and its
\* references resolve
AttributeOf(e, key) ==
    LET at == { i \in 1..Len(e.attributes) : e.attributes[i].well /\ e.attributes[i].key = key }
    IN  IF at = {} THEN None
        ELSE Let(decode_and_unescape_value(e.attributes[CHOOSE i \in at : \A j \in at : j <= i].value),
                 LAMBDA text : IF text.kind = "Err" THEN None ELSE Some(text.val))

IsTag(e) == e.event \in { "Start", "Empty" } /\ e.name = "tag"

\* the start of the changeset element that ends with event number end
ChangesetStart(evs, end) ==
    LET starts == { i \in 1..(end - 1) : evs[i].event = "Start" /\ evs[i].name = "changeset" }
    IN  CHOOSE i \in starts : \A j \in starts : j <= i

\* the (k, v) pairs of the tag elements between events number start and end,
\* in document order
RECURSIVE TagChildren(_, _, _)
TagChildren(evs, start, end) ==
    IF start + 1 >= end THEN <<>>
    ELSE LET e == evs[start + 1]
             rest == TagChildren(evs, start + 1, end)
         IN  IF IsTag(e) /\ AttributeOf(e, "k").some /\ AttributeOf(e, "v").some
             THEN << << AttributeOf(e, "k").val, AttributeOf(e, "v").val >> >> \o rest
             ELSE rest

\* C21: every tuple the tag reader returns is made of the id attribute and
\* of exactly the tag children, in document order, of the changeset element
\* whose end the call has read: no tuple carries the id of one changeset with
\* the tags of another.
C21_TupleIsOneChangeset ==
    ret.kind = "Some" /\ events # <<>> =>
        LET start == events[ChangesetStart(events, reader)]
            id == AttributeOf(start, "id")
        IN  /\ id.some
            /\ ParseUnsigned(id.val) = [kind |-> "Ok", val |-> ret.val[1]]
            /\ ret.val[2] = TagChildren(events, ChangesetStart(events, reader), reader)

----------------------------------------------------------------------------
(* SpecBlock: decode_block_to_objs on blocks of several groups *)

\* the rows of the dense groups of SpecBlock: the id (also latitude and
\* longitude), timestamp, changeset, uid and user_sid deltas of one node
DenseRows == { << 2, 1, 0, 0, 0 >>, << -1, 2, 3, 2, 1 >>, << 5, 1, 1, 1, 1 >> }

\* the dense group with the given rows; tagged gives every node the tag (a, b)
RowGroup(rows, tagged) ==
    LET n == Len(rows)
        g == DenseGroup([k \in 1..n |-> rows[k][1]], [k \in 1..n |-> rows[k][2]],
                        [k \in 1..n |-> rows[k][3]], [k \in 1..n |-> rows[k][4]],
                        [k \in 1..n |-> rows[k][5]])
    IN  [g EXCEPT !.dense.keys_vals = IF tagged THEN Concat([k \in 1..n |-> << 1, 2, 0 >>]) ELSE <<>>]

\* the groups that come before the last group of a block: none, a tagged dense
\* group, or that group and a group of ways
GroupsBefore ==
    { <<>>,
      << RowGroup(<< << 5, 1, 1, 1, 1 >>, << 3, 2, 3, 2, 1 >> >>, TRUE) >>,
      << RowGroup(<< << 5, 1, 1, 1, 1 >>, << 3, 2, 3, 2, 1 >> >>, TRUE),
         [NoGroup EXCEPT !.ways = << Way1, Way2 >>] >> }

InitBlock ==
    /\ \E n \in 0..MaxNodes, tagged \in BOOLEAN, before \in GroupsBefore, dg \in { 1000, 2000 } :
         \E rows \in SeqsOfLen(DenseRows, n) :
            arg = [BlockOfGroups(before \o << RowGroup(rows, tagged) >>) EXCEPT !.date_granularity = dg]
    /\ res = Pending
    /\ overflow_checks = TRUE /\ stream = <<>> /\ frames = [list |-> <<>>, cut |-> 0] /\ pos = 0
    /\ _buffer = <<>> /\ _sorted_assumption = FALSE
    /\ ret = [kind |-> "init"] /\ out = <<>> /\ nones = 0
    /\ NoXml

\* decode_block_to_objs on the block
DecodeBlock ==
    /\ res = Pending
    /\ res' = decode_block_to_objs(arg)
    /\ UNCHANGED <<overflow_checks, stream, frames, pos, _buffer, _sorted_assumption, ret, out, nones, arg, xml>>

SpecBlock == InitBlock /\ [][DecodeBlock]_vars

----------------------------------------------------------------------------
(* Properties of a block of several groups *)

\* group k of the block decoded as the only group of a block with the same
\* parameters and string table
DecodedAlone(block, k) ==
    decode_block_to_objs([block EXCEPT !.primitivegroup = << block.primitivegroup[k] >>])

\* C22: the entities decoded from a dense group are those the group gives when
\* it is the only group of its block: the accumulators and the tag cursor start
\* at zero for each group, so the batch of a block is the concatenation of what
\* each of its groups gives alone.
C22_GroupsDecodeAlone ==
    Decided =>
        LET groups == DOMAIN arg.primitivegroup
        IN  IF \A k \in groups : DecodedAlone(arg, k).kind = "ok"
            THEN /\ res.kind = "ok"
                 /\ res.results = Concat([k \in groups |-> DecodedAlone(arg, k).results])
            ELSE res.kind = "panic"

\* a tagged dense group of two nodes with non-zero deltas in every column,
\* decoded after a tagged dense group and a group of ways
C22_Witness ==
    /\ Decided /\ res.kind = "ok"
    /\ Len(arg.primitivegroup) = 3
    /\ arg.primitivegroup[3].dense.id = << -1, 5 >>
    /\ arg.primitivegroup[3].dense.keys_vals # <<>>
    /\ Len(res.results) = 6
    /\ res.results[6].id = 4

----------------------------------------------------------------------------
(* Properties of the metadata of ways and relations *)

MetadataOf(e) == << e.changeset_id, e.uid, e.user, e.version, e.deleted, e.timestamp >>

\* the way or relation x decoded as the only entity of a group, in a block of
\* date_granularity 1000
AloneOf(x, kind) ==
    decode_primitive_group_to_objs(
        IF kind = "Way" THEN [NoGroup EXCEPT !.ways = << x >>] ELSE [NoGroup EXCEPT !.relations = << x >>],
        100, 0, 0, 1000, GroupStrings, <<>>)

\* entity k of the group is the one the decoder gives for input x alone, as far
\* as metadata goes, and carries the timestamp of x's info record as it is
OwnMetadata(k, x, kind) ==
    /\ AloneOf(x, kind).kind = "ok"
    /\ MetadataOf(res.results[k]) = MetadataOf(AloneOf(x, kind).results[1])
    /\ res.results[k].timestamp = x.info.timestamp
    /\ res.results[k].changeset_id = AsU32(x.info.changeset)
    /\ res.results[k].uid = AsU32(x.info.uid)
    /\ res.results[k].version = AsU32(x.info.version)
    /\ res.results[k].user = At(GroupStrings, x.info.user_sid).val
    /\ res.results[k].deleted = ~(x.info.visible.some /\ x.info.visible.val)

\* C23: whenever a group of ways or relations is decoded, every entity has the
\* changeset, uid, user name, version and visibility of its own info record,
\* the same as when it is decoded alone, whatever ways or relations come before
\* it, and its timestamp is the info record's timestamp unchanged for every
\* date_granularity of the block.
C23_MetadataIsOwnInfo ==
    /\ WaysDecided /\ res.kind = "ok" =>
           \A k \in DOMAIN arg.primitive_group.ways :
               OwnMetadata(k, arg.primitive_group.ways[k], "Way")
    /\ RelationsDecided /\ res.kind = "ok" =>
           \A k \in DOMAIN arg.primitive_group.relations :
               OwnMetadata(k, arg.primitive_group.relations[k], "Relation")

\* a way with a non-zero timestamp and the other user name, decoded after
\* another way in a block of date_granularity 2000
C23_Witness ==
    /\ WaysDecided /\ res.kind = "ok"
    /\ arg.date_granularity = 2000
    /\ Len(arg.primitive_group.ways) = 2
    /\ arg.primitive_group.ways[2].info.timestamp = 2000
    /\ arg.primitive_group.ways[2].info.user_sid = 2
    /\ arg.primitive_group.ways[2].info.changeset = -1
    /\ res.results[2].timestamp = 2000
    /\ res.results[2].user = << 98 >>

----------------------------------------------------------------------------
(* Properties of malformed dense groups *)

\* C24: a dense group whose key/value array is not empty but holds fewer
\* terminators than the group has nodes (the array runs out while a node's
\* tags are read, after a pair or after a key without value) is answered with
\* a decode error, not with an abort.
C24_ExhaustedTagsAreDecodeError ==
    LET dense == arg.primitive_group.dense
    IN  (/\ DenseDecided
         /\ dense.keys_vals # <<>>
         /\ Cardinality(Terminators(dense.keys_vals)) < Len(dense.id)) =>
            res.kind = "DecodeError"

\* some parallel column of dense is shorter than its id column
HasShortColumn(dense) ==
    LET info == dense.denseinfo
    IN  \E c \in { dense.lat, dense.lon, info.uid, info.changeset, info.user_sid,
                   info.timestamp, info.version } : Len(c) < Len(dense.id)

\* C25: a dense group in which the latitude, longitude, user id, changeset,
\* user-name index, timestamp or version column is shorter than the id column
\* is answered with an error to the caller, not with an abort.
C25_ShortColumnIsError ==
    (DenseDecided /\ HasShortColumn(arg.primitive_group.dense)) => res.kind = "DecodeError"

----------------------------------------------------------------------------
(* Properties of plain-node groups *)

\* C26: a group whose plain-node list is not empty is decoded without abort
\* into one Node entity per listed node, in list order.
C26_PlainNodesAreDecoded ==
    LET nodes == arg.primitive_group.nodes
    IN  (Decided /\ nodes # <<>>) =>
            /\ res.kind = "ok"
            /\ AllOfType(res.results, "Node", Len(nodes))
            /\ \A k \in DOMAIN nodes : res.results[k].id = nodes[k].id

----------------------------------------------------------------------------
(* ChangesetReader *)

\* str::parse for a signed integer: an optional sign, then decimal digits
ParseSigned(text) ==
    IF text # <<>> /\ text[1] = "-"
    THEN LET p == ParseUnsigned(Tail(text))
         IN  IF p.kind = "Err" \/ Tail(text)[1] = "+" THEN Err("parse")
             ELSE [kind |-> "Ok", val |-> 0 - p.val]
    ELSE ParseUnsigned(text)

\* ChangesetBuilder::default()
NoBuilder ==
    [id |-> None, created |-> None, closed |-> None, open |-> None, uid |-> None,
     user |-> None, tags |-> None, num_changes |-> None, comments_count |-> None]

\* the setter the attribute loop calls for one attribute: the builder after it,
\* or an error
SetAttribute(builder, attr) ==
    LET text == decode_and_unescape_value(attr.value)
        number == IF text.kind = "Err" THEN text
                  ELSE IF attr.key = "uid" THEN ParseSigned(text.val)
                  ELSE ParseUnsigned(text.val)
        set(b) == [kind |-> "Ok", builder |-> b]
    IN  CASE attr.key = "id" ->
               IF number.kind = "Err" THEN number
               ELSE set([builder EXCEPT !.id = Some(number.val)])
          [] attr.key = "created_at" ->
               IF text.kind = "Err" THEN text
               ELSE set([builder EXCEPT !.created = Some(text.val)])
          [] attr.key = "closed_at" ->
               IF text.kind = "Err" THEN text
               ELSE set([builder EXCEPT !.closed = Some(Some(text.val))])
          [] attr.key = "open" ->
               IF attr.value = << "t", "r", "u", "e" >>
               THEN set([builder EXCEPT !.open = Some(TRUE)])
               ELSE IF attr.value = << "f", "a", "l", "s", "e" >>
               THEN set([builder EXCEPT !.open = Some(FALSE)])
               ELSE Err("unknown value")
          [] attr.key = "user" ->
               IF text.kind = "Err" THEN text
               ELSE set([builder EXCEPT !.user = Some(Some(text.val))])
          [] attr.key = "uid" ->
               IF number.kind = "Err" THEN number
               ELSE set([builder EXCEPT !.uid = Some(Some(number.val))])
          [] attr.key = "num_changes" ->
               IF number.kind = "Err" THEN number
               ELSE set([builder EXCEPT !.num_changes = Some(number.val)])
          [] attr.key = "comments_count" ->
               IF number.kind = "Err" THEN number
               ELSE set([builder EXCEPT !.comments_count = Some(number.val)])
          [] OTHER -> set(builder)

\* for attr in e.attributes(), from the n-th attribute
RECURSIVE ChangesetAttributes(_, _, _)
ChangesetAttributes(attributes, n, builder) ==
    IF n > Len(attributes) THEN [kind |-> "Ok", builder |-> builder]
    ELSE IF ~attributes[n].well THEN Err("attribute")
    ELSE LET r == SetAttribute(builder, attributes[n])
         IN  IF r.kind = "Err" THEN r
             ELSE ChangesetAttributes(attributes, n + 1, r.builder)

\* HashMap::insert on a map kept as a set of (key, value) pairs
Insert(map, k, v) == { p \in map : p[1] # k } \cup { << k, v >> }

\* ChangesetBuilder::build: closed, uid and user default to None, every other
\* field has to be set
Build(builder) ==
    IF \E f \in { "id", "created", "open", "tags", "num_changes", "comments_count" } :
           ~builder[f].some
    THEN Err("UninitializedField")
    ELSE [kind |-> "Ok",
          val |-> [id |-> builder.id.val, created |-> builder.created.val,
                   closed |-> IF builder.closed.some THEN builder.closed.val ELSE None,
                   open |-> builder.open.val,
                   uid |-> IF builder.uid.some THEN builder.uid.val ELSE None,
                   user |-> IF builder.user.some THEN builder.user.val ELSE None,
                   tags |-> builder.tags.val,
                   num_changes |-> builder.num_changes.val,
                   comments_count |-> builder.comments_count.val]]

\* the tag loop of next_changeset from reader position n: the tags and the
\* position after the end of the changeset, or an error.  At the end of the
\* input read_event_into yields Eof, the loop takes its `_ => continue` arm
\* and reads again, with nothing changed: the loop does not end ("diverges").
RECURSIVE TagLoop(_, _, _)
TagLoop(evs, n, map) ==
    LET e == read_event_into(evs, n)
        m == Consumed(evs, n)
    IN  CASE e.event = "Err" -> [kind |-> "Err", why |-> e.name, reader |-> m]
          [] e.event = "Eof" -> [kind |-> "diverges", reader |-> m]
          [] e.event = "End" /\ e.name = "changeset" ->
               [kind |-> "Ok", tags |-> map, reader |-> m]
          [] e.event \in { "Start", "Empty" } /\ e.name = "tag" ->
               LET kv == TagAttributes(e.attributes, 1, None, None)
               IN  IF kv.kind = "Err" THEN [kind |-> "Err", why |-> kv.why, reader |-> m]
                   ELSE TagLoop(evs, m, Insert(map, kv.val[1], kv.val[2]))
          [] OTHER -> TagLoop(evs, m, map)

\* ChangesetReader::next_changeset from reader position n: the outcome (a
\* changeset, None, an error, or no return) and the reader position after it
RECURSIVE next_changeset(_, _)
next_changeset(evs, n) ==
    LET e == read_event_into(evs, n)
        m == Consumed(evs, n)
        built(b, at) == LET c == Build(b)
                        IN  IF c.kind = "Err" THEN [ret |-> c, reader |-> at]
                            ELSE [ret |-> [kind |-> "Some", val |-> c.val], reader |-> at]
    IN  CASE e.event = "Err" -> [ret |-> Err(e.name), reader |-> m]
          [] e.event = "Eof" -> [ret |-> [kind |-> "None"], reader |-> m]
          [] e.event = "Start" /\ e.name = "changeset" ->
               LET b == ChangesetAttributes(e.attributes, 1, NoBuilder)
               IN  IF b.kind = "Err" THEN [ret |-> b, reader |-> m]
                   ELSE LET t == TagLoop(evs, m, {})
                        IN  IF t.kind = "diverges"
                            THEN [ret |-> [kind |-> "diverges"], reader |-> t.reader]
                            ELSE IF t.kind = "Err"
                            THEN [ret |-> Err(t.why), reader |-> t.reader]
                            ELSE built([b.builder EXCEPT !.tags = Some(t.tags)], t.reader)
          [] e.event = "Empty" /\ e.name = "changeset" ->
               LET b == ChangesetAttributes(e.attributes, 1, NoBuilder)
               IN  IF b.kind = "Err" THEN [ret |-> b, reader |-> m]
                   ELSE built([b.builder EXCEPT !.tags = Some({})], m)
          [] OTHER -> next_changeset(evs, m)

\* a call of ChangesetReader::next_changeset (Iterator::next is its transpose);
\* a call that does not return leaves the reader in its tag loop for good
NextChangeset ==
    /\ pc = "idle"
    /\ nones < MaxNone
    /\ \E r \in { next_changeset(events, reader) } :
         /\ ret' = r.ret
         /\ reader' = r.reader
         /\ pc' = IF r.ret.kind = "diverges" THEN "tags" ELSE "idle"
         /\ out' = IF r.ret.kind = "Some" THEN Append(out, r.ret.val) ELSE out
         /\ nones' = IF r.ret.kind = "None" THEN nones + 1 ELSE nones
    /\ UNCHANGED <<overflow_checks, stream, frames, pos, _buffer, _sorted_assumption, arg, res, events, curr_id, curr_tags>>

SpecChangesets == InitXml /\ [][NextChangeset]_vars

----------------------------------------------------------------------------
(* Properties of the changeset reader *)

\* the map a sequence of (k, v) pairs leaves: of two pairs with one key the
\* later one
MapOf(pairs) ==
    { pairs[i] : i \in { i \in DOMAIN pairs : \A j \in DOMAIN pairs : j > i => pairs[j][1] # pairs[i][1] } }

\* the end of the changeset element that starts with event number i, or 0
\* when the document stops before it
ChangesetEnd(evs, i) ==
    LET ends == { j \in (i + 1)..Len(evs) : evs[j].event = "End" /\ evs[j].name = "changeset" }
    IN  IF ends = {} THEN 0 ELSE CHOOSE j \in ends : \A k \in ends : j <= k

\* the changeset element at event number i as a Changeset: its attributes, and
\* for the open/close form the map of its tag children; an error when an
\* attribute, a required field or the k or v of a tag child is not there
ChangesetAt(evs, i) ==
    LET b == ChangesetAttributes(evs[i].attributes, 1, NoBuilder)
        j == ChangesetEnd(evs, i)
        children == IF evs[i].event = "Empty" THEN <<>> ELSE SubSeq(evs, i + 1, j - 1)
        whole == \A c \in 1..Len(children) :
                    IsTag(children[c]) =>
                        AttributeOf(children[c], "k").some /\ AttributeOf(children[c], "v").some
    IN  IF b.kind = "Err" \/ ~whole THEN Err("element")
        ELSE Build([b.builder EXCEPT !.tags =
                        Some(IF evs[i].event = "Empty" THEN {}
                             ELSE MapOf(TagChildren(evs, i, j)))])

\* the changesets of the elements that lie within the first upto events, in
\* document order, from event number i on
RECURSIVE ChangesetsWithin(_, _, _)
ChangesetsWithin(evs, i, upto) ==
    IF i > upto THEN <<>>
    ELSE LET e == evs[i]
             within == /\ e.name = "changeset"
                       /\ \/ e.event = "Empty"
                          \/ e.event = "Start" /\ ChangesetEnd(evs, i) \in (i + 1)..upto
         IN  IF within /\ ChangesetAt(evs, i).kind = "Ok"
             THEN << ChangesetAt(evs, i).val >> \o ChangesetsWithin(evs, i + 1, upto)
             ELSE ChangesetsWithin(evs, i + 1, upto)

\* C27: every call of next_changeset returns; the changesets returned so far
\* are the changeset elements read so far, in document order, each with its
\* attributes and, in the open/close form, the map of its tag children (the
\* empty map in the self-closing form), every other element skipped; None is
\* returned only at the end of the input, and once returned it is returned by
\* every later call.
C27_ChangesetsInDocumentOrder ==
    /\ pc = "idle"
    /\ out = ChangesetsWithin(events, 1, reader)
    /\ ret.kind = "None" => reader = Len(events)
    /\ nones >= 1 => ret.kind = "None"

----------------------------------------------------------------------------
(* Properties of the buffered iterator *)

\* the buffer holds, last first, the entities not yet served of the one block
\* whose frame ends at the reader's position, and never the whole block
BufferOfOneBlock ==
    _buffer # <<>> =>
        \E k \in 1..Len(frames.list) :
            /\ FrameEnd(frames.list, k) = pos
            /\ frames.list[k].kind = OSMData /\ frames.list[k].payload.some
            /\ LET entities == EntitiesOfBlock(frames.list[k].payload.val[1])
                   n == Len(_buffer)
               IN  /\ n < Len(entities)
                   /\ \A i \in 1..n : SameEntity(_buffer[i], entities[Len(entities) - i + 1])

\* None has been returned only with every frame that is whole in the stream
\* behind the reader's position
NoneOnlyAtEnd ==
    ret.kind = "None" =>
        \A k \in 1..Len(frames.list) :
            FrameEnd(frames.list, k) <= Len(stream) => FrameEnd(frames.list, k) <= pos

\* C28: next() reads from the stream only when its buffer is empty; the buffer
\* holds entities of one block only; a block without entities does not end the
\* iteration: None is returned only when no whole frame is left in the stream.
C28_ReadsWhenEmpty ==
    /\ [][_buffer # <<>> => pos' = pos]_vars
    /\ [](BufferOfOneBlock /\ NoneOnlyAtEnd)

\* a block without entities, then a block of two nodes: the first call has
\* skipped the empty block and returned the first node, the second is buffered
C28_Witness ==
    /\ Len(frames.list) = 2 /\ frames.cut = 0
    /\ frames.list[1].kind = OSMData /\ frames.list[1].payload = Some(SerializeBlock(3))
    /\ frames.list[2].kind = OSMData /\ frames.list[2].payload = Some(SerializeBlock(1))
    /\ ret.kind = "Some" /\ Len(out) = 1 /\ Len(_buffer) = 1
    /\ pos = Len(stream)

----------------------------------------------------------------------------
(* SpecSteps: PBFReader::next, one loop iteration at a time.                *)
(*                                                                          *)
(* pc names the loop the call stands in: "while" (the buffer-refill loop of *)
(* next), "loop" (the frame loop of get_next_osmdata_blob), "decode" (the   *)
(* group loop of decode_block_to_objs) and "tags" (the tag loop of          *)
(* decode_dense_nodes).  arg keeps the reader as it was when next was       *)
(* called, res the block that is being decoded.                             *)

\* a frame loop that starts over at the same offset after a frame that is not
\* entity data
LoopBody_NoConsume(s, p) ==
    Let(ReadU32(s, p), LAMBDA size :
    IF ~size.ok THEN [kind |-> "None", pos |-> AfterFailedRead(size)]
    ELSE
    Let(ReadExact(s, size.pos, size.val), LAMBDA header_bytes :
    IF ~header_bytes.ok
    THEN Panic("read_exact(header): unwrap on Err") @@ [pos |-> header_bytes.pos]
    ELSE
    Let(ParseBlobHeader(header_bytes.bytes), LAMBDA blob_header :
    IF ~blob_header.ok
    THEN Panic("parse BlobHeader: unwrap on Err") @@ [pos |-> header_bytes.pos]
    ELSE IF ~WithCapacityOk(blob_header.datasize)
    THEN Panic("vec![0; datasize]: capacity overflow") @@ [pos |-> header_bytes.pos]
    ELSE
    Let(ReadExact(s, header_bytes.pos, blob_header.datasize), LAMBDA blob_bytes :
    IF ~blob_bytes.ok
    THEN Panic("read_exact(blob): unwrap on Err") @@ [pos |-> blob_bytes.pos]
    ELSE IF ~IsEntityData(blob_header.field_type)
    THEN [kind |-> "continue", pos |-> p]
    ELSE
    Let(ParseBlob(blob_bytes.bytes), LAMBDA blob :
    IF ~blob.ok
    THEN Panic("parse Blob: unwrap on Err") @@ [pos |-> blob_bytes.pos]
    ELSE [kind |-> "Some", blob |-> blob, pos |-> blob_bytes.pos])))))

\* one iteration of the loop of get_next_osmdata_blob from offset p:
\*   [kind |-> "None", pos], [kind |-> "continue", pos] (the frame is not entity
\*   data), [kind |-> "Some", blob, pos] or a panic (with pos)
LoopBody(s, p) ==
    Let(ReadU32(s, p), LAMBDA size :
    IF ~size.ok THEN [kind |-> "None", pos |-> AfterFailedRead(size)]
    ELSE
    Let(ReadExact(s, size.pos, size.val), LAMBDA header_bytes :
    IF ~header_bytes.ok
    THEN Panic("read_exact(header): unwrap on Err") @@ [pos |-> header_bytes.pos]
    ELSE
    Let(ParseBlobHeader(header_bytes.bytes), LAMBDA blob_header :
    IF ~blob_header.ok
    THEN Panic("parse BlobHeader: unwrap on Err") @@ [pos |-> header_bytes.pos]
    ELSE IF ~WithCapacityOk(blob_header.datasize)
    THEN Panic("vec![0; datasize]: capacity overflow") @@ [pos |-> header_bytes.pos]
    ELSE
    Let(ReadExact(s, header_bytes.pos, blob_header.datasize), LAMBDA blob_bytes :
    IF ~blob_bytes.ok
    THEN Panic("read_exact(blob): unwrap on Err") @@ [pos |-> blob_bytes.pos]
    ELSE IF ~IsEntityData(blob_header.field_type)
    THEN [kind |-> "continue", pos |-> blob_bytes.pos]
    ELSE
    Let(ParseBlob(blob_bytes.bytes), LAMBDA blob :
    IF ~blob.ok
    THEN Panic("parse Blob: unwrap on Err") @@ [pos |-> blob_bytes.pos]
    ELSE [kind |-> "Some", blob |-> blob, pos |-> blob_bytes.pos])))))

\* res while no block is being decoded
NoDecoding == [k |-> 0]

\* the frames of SpecSteps: a header frame, an empty block, a block of plain
\* dense nodes, the two blocks with dense tags, and a frame without payload
StepFrameChoices ==
    { Frame(OSMHeader, Some(<< 9 >>), None, None, None),
      Frame(OSMData, Some(SerializeBlock(3)), None, None, Some(SerializeBlock(3))),
      Frame(OSMData, Some(SerializeBlock(1)), None, None, Some(SerializeBlock(1))),
      Frame(OSMData, Some(SerializeBlock(5)), None, None, Some(SerializeBlock(5))),
      Frame(OSMData, Some(SerializeBlock(6)), None, None, Some(SerializeBlock(6))),
      Frame(OSMData, None, None, None, None) }

InitSteps ==
    /\ \E len \in 0..MaxFrames : \E fs \in SeqsOfLen(StepFrameChoices, len) :
       \E cut \in Cuts(fs) :
           /\ frames = [list |-> fs, cut |-> cut]
           /\ overflow_checks = TRUE /\ stream = StreamOf(fs, cut)
    /\ pos = 0
    /\ _buffer = <<>>
    /\ _sorted_assumption = FALSE
    /\ ret = [kind |-> "init"]
    /\ out = <<>>
    /\ nones = 0
    /\ arg = [pos |-> 0, buffer |-> <<>>]
    /\ res = NoDecoding
    /\ NoXml

\* the call leaves by a panic
StepPanic(why) ==
    /\ ret' = [kind |-> "panic", why |-> why]
    /\ pc' = "idle"
    /\ res' = NoDecoding
    /\ UNCHANGED <<_buffer, out, nones>>

\* PBFReader::next is called
StepCall ==
    /\ pc = "idle"
    /\ ret.kind # "panic"
    /\ nones < MaxNone
    /\ pc' = "while"
    /\ arg' = [pos |-> pos, buffer |-> _buffer]
    /\ UNCHANGED <<overflow_checks, stream, frames, pos, _buffer, _sorted_assumption, ret, out, nones, res,
                   events, reader, curr_id, curr_tags>>

\* while self._buffer.is_empty() { ... } self._buffer.pop(): the test of the
\* loop, and the return once the buffer holds an entity
WhileStep ==
    /\ pc = "while"
    /\ IF _buffer = <<>>
       THEN /\ pc' = "loop"
            /\ UNCHANGED <<_buffer, ret, out>>
       ELSE /\ pc' = "idle"
            /\ ret' = [kind |-> "Some", val |-> _buffer[Len(_buffer)]]
            /\ out' = Append(out, _buffer[Len(_buffer)])
            /\ _buffer' = SubSeq(_buffer, 1, Len(_buffer) - 1)
    /\ UNCHANGED <<overflow_checks, stream, frames, pos, _sorted_assumption, nones, arg, res,
                   events, reader, curr_id, curr_tags>>

\* self.filereader.next()?: one iteration of the frame loop; a blob that is
\* found is read and parsed, and its decoding starts
LoopStep ==
    /\ pc = "loop"
    /\ \E r \in { LoopBody(stream, pos) } :
           /\ pos' = r.pos
           /\ CASE r.kind = "None" ->
                     /\ ret' = [kind |-> "None"]
                     /\ nones' = nones + 1
                     /\ pc' = "idle"
                     /\ UNCHANGED <<_buffer, out, res>>
                [] r.kind = "panic" -> StepPanic(r.why)
                [] r.kind = "continue" -> UNCHANGED <<_buffer, ret, out, nones, res, pc>>
                [] OTHER ->
                     \E blob_data \in { blob_raw_data(r.blob) } :
                         IF blob_data.kind = "panic" THEN StepPanic(blob_data.why)
                         ELSE IF ~blob_data.val.some
                         THEN StepPanic("blob_raw_data(..).unwrap() on None")
                         ELSE \E block \in { ParsePrimitiveBlock(blob_data.val.val) } :
                                  IF ~block.ok
                                  THEN StepPanic("parse PrimitiveBlock: unwrap on Err")
                                  ELSE /\ pc' = "decode"
                                       /\ res' = [block |-> block.block, k |-> 1,
                                                  results |-> <<>>]
                                       /\ UNCHANGED <<_buffer, ret, out, nones>>
    /\ UNCHANGED <<overflow_checks, stream, frames, _sorted_assumption, arg,
                   events, reader, curr_id, curr_tags>>

\* the decoding stands before node index of the dense group res.k, its tag loop
\* at keys_vals_index
AtNode(index, st) ==
    [block |-> res.block, k |-> res.k, results |-> res.results, index |-> index, st |-> st,
     keys_vals_index |-> st.keys_vals_index]

\* for primitive_group in block.get_primitivegroup(): one group, or, after the
\* last one, objs.reverse() and self._buffer = objs.  A dense group with tags is
\* entered, its nodes are decoded by TagStep.
DecodeStep ==
    /\ pc = "decode"
    /\ IF res.k > Len(res.block.primitivegroup)
       THEN /\ _buffer' = Batch(res.results)
            /\ pc' = "while"
            /\ res' = NoDecoding
            /\ UNCHANGED <<ret, out, nones>>
       ELSE LET primitive_group == res.block.primitivegroup[res.k]
            IN  IF /\ GroupDecoder(primitive_group) = "decode_dense_nodes"
                   /\ primitive_group.dense.keys_vals # <<>>
                   /\ Len(primitive_group.dense.id) > 0
                THEN /\ pc' = "tags"
                     /\ res' = AtNode(0, DenseStart)
                     /\ UNCHANGED <<_buffer, ret, out, nones>>
                ELSE \E r \in { decode_primitive_group_to_objs(primitive_group,
                                    res.block.granularity, res.block.lat_offset,
                                    res.block.lon_offset, res.block.date_granularity,
                                    ResolveStringTable(res.block.stringtable),
                                    res.results) } :
                         IF r.kind = "panic" THEN StepPanic(r.why)
                         ELSE /\ res' = [res EXCEPT !.results = r.results, !.k = @ + 1]
                              /\ UNCHANGED <<_buffer, ret, out, nones, pc>>
    /\ UNCHANGED <<overflow_checks, stream, frames, pos, _sorted_assumption, arg,
                   events, reader, curr_id, curr_tags>>

\* one iteration of the tag loop of decode_dense_nodes: a key and its value are
\* read, or the terminator is read and the node is completed
TagStep ==
    /\ pc = "tags"
    /\ LET dense == res.block.primitivegroup[res.k].dense
           keys_vals == dense.keys_vals
           kvi == res.keys_vals_index
       IN  IF ~InBounds(dense.id, res.index) \/ ~InBounds(dense.lat, res.index)
              \/ ~InBounds(dense.lon, res.index)
           THEN StepPanic("index out of bounds")
           ELSE IF ~InBounds(keys_vals, kvi)
           THEN StepPanic("keys_vals[keys_vals_index]: index out of bounds")
           ELSE IF At(keys_vals, kvi) # 0
           THEN IF ~InBounds(keys_vals, kvi + 1)
                THEN StepPanic("keys_vals[keys_vals_index]: index out of bounds")
                ELSE /\ res' = [res EXCEPT !.keys_vals_index = kvi + 2]
                     /\ UNCHANGED <<_buffer, ret, out, nones, pc>>
           ELSE \E n \in { DenseNode(dense, res.index, res.st, res.block.granularity,
                               res.block.lat_offset, res.block.lon_offset,
                               TruncDiv(res.block.date_granularity, 1000),
                               ResolveStringTable(res.block.stringtable)) } :
                    IF n.kind = "panic" THEN StepPanic(n.why)
                    ELSE IF res.index + 1 >= Len(dense.id)
                    THEN /\ pc' = "decode"
                         /\ res' = [block |-> res.block, k |-> res.k + 1,
                                    results |-> Append(res.results, n.node)]
                         /\ UNCHANGED <<_buffer, ret, out, nones>>
                    ELSE /\ res' = [AtNode(res.index + 1, n.st) EXCEPT
                                       !.results = Append(res.results, n.node),
                                       !.keys_vals_index = kvi + 1]
                         /\ UNCHANGED <<_buffer, ret, out, nones, pc>>
    /\ UNCHANGED <<overflow_checks, stream, frames, pos, _sorted_assumption, arg,
                   events, reader, curr_id, curr_tags>>

\* the steps the running call takes by itself
Step == WhileStep \/ LoopStep \/ DecodeStep \/ TagStep

NextSteps == StepCall \/ Step

\* where the running call stands: every step of a call moves it
Position == << pc, pos, res.k, IF pc = "tags" THEN res.keys_vals_index ELSE 0 >>

\* a call that has started keeps running: it is one thread, nothing suspends it
SpecSteps == InitSteps /\ [][NextSteps]_vars /\ WF_Position(Step)


\* what one call of next, taken whole, makes of the reader the call started from
StepsAgree ==
    pc = "idle" /\ ret.kind # "init" =>
        LET r == next(stream, arg.pos, arg.buffer)
        IN  /\ ret.kind = r.kind
            /\ r.kind = "Some" => ret.val = r.val
            /\ r.kind # "panic" => pos = r.pos /\ _buffer = r.buffer

\* the key/value array of the dense group the tag loop stands in
TagLoopArray == res.block.primitivegroup[res.k].dense.keys_vals

\* C29: every call of PBFReader::next returns (an entity, None or a panic):
\* an iteration of the frame loop that does not end the call consumes at least
\* the four bytes of a length prefix, the refill loop has no other way to come
\* round than through the frame loop, the reader never stands beyond the end of
\* the stream, and an iteration of the dense tag loop leaves its cursor further
\* on in the key/value array, never beyond its end
C29_EveryCallReturns ==
    /\ [][pc = "loop" /\ pc' # "idle" => pos' >= pos + 4]_vars
    /\ [][pc = "while" /\ pc' # "idle" => pc' = "loop" /\ pos' = pos]_vars
    /\ [][pc' = "while" => pc \in { "idle", "decode", "while" }]_vars
    /\ [][pc # "loop" => pos' = pos]_vars
    /\ [](pos <= Len(stream))
    /\ [][pc = "tags" /\ pc' = "tags" =>
              /\ res'.keys_vals_index > res.keys_vals_index
              /\ res'.keys_vals_index <= Len(TagLoopArray)]_vars
    /\ [](pc = "idle" /\ ret.kind # "init" => ret.kind \in { "Some", "None", "panic" })
    /\ (pc # "idle") ~> (pc = "idle")

\* a header frame was skipped and the nodes of a tagged dense group and of the
\* group after it were all returned
C29_Witness ==
    /\ pc = "idle"
    /\ Len(frames.list) = 2
    /\ frames.list[1].kind = OSMHeader
    /\ frames.list[2].payload = Some(SerializeBlock(5))
    /\ frames.cut = 0
    /\ Len(out) = 3
    /\ out[1].tags # <<>>
    /\ ret.kind = "Some"

====
